---- MODULE Spec2Model ----
(***************************************************************************)
(* Model of the delta-rs table core (rust/src/delta.rs): the snapshot      *)
(* engine (load / update / load_version), the state projector              *)
(* (process_action) and the optimistic commit protocol (DeltaTransaction)  *)
(* running against one object store shared by several handles.            *)
(*                                                                         *)
(* Granularity.  Every storage call is a suspension point of the code.     *)
(* load, update and load_version only read objects that are immutable once *)
(* written, so each is one step.  commit_with and commit_version write the *)
(* store, so they are split at their storage writes: the put of            *)
(* prepare_commit, the update of next_attempt_version, the rename of       *)
(* try_commit and the final update are separate steps that other handles   *)
(* and the environment interleave with.                                    *)
(***************************************************************************)
EXTENDS Integers, Sequences, FiniteSets, TLC

(* ------------------------------------------------------------------ *)
(* Bounds of the model                                                  *)
(* ------------------------------------------------------------------ *)

\* Spec: log versions 0..MaxVersion can be stored, and the handle starts MaxCalls calls.
MaxVersion == 1

MaxCalls == 2

\* SpecWriters: log versions 0..MaxWriterVersion, and MaxWriterCalls calls per handle.
MaxWriterVersion == 2

MaxWriterCalls == 1

Handles == {"h1", "h2"}

Paths == {"a", "b"}

(* ------------------------------------------------------------------ *)
(* Actions and the table state                                          *)
(* ------------------------------------------------------------------ *)

Add(p) == [tag |-> "add", path |-> p]

Remove(p) == [tag |-> "remove", path |-> p]

Protocol(r, w) == [tag |-> "protocol", minReaderVersion |-> r, minWriterVersion |-> w]

MetaData(id, cols) == [tag |-> "metaData", id |-> id, partitionColumns |-> cols]

Txn(app, v) == [tag |-> "txn", appId |-> app, version |-> v]

CommitInfo(info) == [tag |-> "commitInfo", info |-> info]

\* Option<T>: <<>> is None, <<x>> is Some(x).
None == <<>>

Some(x) == <<x>>

\* DeltaTableState::default()
DefaultState ==
    [tombstones |-> <<>>,
     files |-> <<>>,
     commit_infos |-> <<>>,
     app_transaction_version |-> <<>>,
     min_reader_version |-> 0,
     min_writer_version |-> 0,
     current_metadata |-> None]

\* Vec::retain(|a| a.path != p)
RECURSIVE Retain(_, _)
Retain(files, p) ==
    IF files = <<>> THEN <<>>
    ELSE IF Head(files).path # p
         THEN <<Head(files)>> \o Retain(Tail(files), p)
         ELSE Retain(Tail(files), p)

\* HashMap entry(k).or_insert(v) followed by the assignment of v
MapInsert(m, k, v) == [x \in (DOMAIN m) \cup {k} |-> IF x = k THEN v ELSE m[x]]

\* Variant of process_action whose add also forgets the tombstones of its path.
ProcessActionAddClearsTombstones(state, action) ==
    CASE action.tag = "add" ->
            [state EXCEPT !.files = Append(@, action),
                          !.tombstones = Retain(@, action.path)]
      [] action.tag = "remove" ->
            [state EXCEPT !.files = Retain(@, action.path),
                          !.tombstones = Append(@, action)]
      [] action.tag = "protocol" ->
            [state EXCEPT !.min_reader_version = action.minReaderVersion,
                          !.min_writer_version = action.minWriterVersion]
      [] action.tag = "metaData" ->
            [state EXCEPT !.current_metadata =
                Some([id |-> action.id, partition_columns |-> action.partitionColumns])]
      [] action.tag = "txn" ->
            [state EXCEPT !.app_transaction_version = MapInsert(@, action.appId, action.version)]
      [] action.tag = "commitInfo" ->
            [state EXCEPT !.commit_infos = Append(@, action.info)]

\* Variant of process_action whose txn keeps the version an appId already has.
ProcessActionTxnKeepsFirst(state, action) ==
    CASE action.tag = "add" ->
            [state EXCEPT !.files = Append(@, action)]
      [] action.tag = "remove" ->
            [state EXCEPT !.files = Retain(@, action.path),
                          !.tombstones = Append(@, action)]
      [] action.tag = "protocol" ->
            [state EXCEPT !.min_reader_version = action.minReaderVersion,
                          !.min_writer_version = action.minWriterVersion]
      [] action.tag = "metaData" ->
            [state EXCEPT !.current_metadata =
                Some([id |-> action.id, partition_columns |-> action.partitionColumns])]
      [] action.tag = "txn" ->
            IF action.appId \in DOMAIN state.app_transaction_version THEN state
            ELSE [state EXCEPT !.app_transaction_version =
                                   MapInsert(@, action.appId, action.version)]
      [] action.tag = "commitInfo" ->
            [state EXCEPT !.commit_infos = Append(@, action.info)]

\* process_action
ProcessAction(state, action) ==
    CASE action.tag = "add" ->
            [state EXCEPT !.files = Append(@, action)]
      [] action.tag = "remove" ->
            [state EXCEPT !.files = Retain(@, action.path),
                          !.tombstones = Append(@, action)]
      [] action.tag = "protocol" ->
            [state EXCEPT !.min_reader_version = action.minReaderVersion,
                          !.min_writer_version = action.minWriterVersion]
      [] action.tag = "metaData" ->
            [state EXCEPT !.current_metadata =
                Some([id |-> action.id, partition_columns |-> action.partitionColumns])]
      [] action.tag = "txn" ->
            [state EXCEPT !.app_transaction_version = MapInsert(@, action.appId, action.version)]
      [] action.tag = "commitInfo" ->
            [state EXCEPT !.commit_infos = Append(@, action.info)]

(* ------------------------------------------------------------------ *)
(* Log entries: one JSON line per action                                *)
(* ------------------------------------------------------------------ *)

\* serde_json::to_string(action)
ToJson(action) == [valid |-> TRUE, action |-> action]

\* A line that serde_json::from_str rejects.
BadLine == [valid |-> FALSE, action |-> Add("a")]

\* log_entry_from_actions: the actions' JSON joined by newlines
LogEntryFromActions(actions) == [i \in 1..Len(actions) |-> ToJson(actions[i])]

\* A replay that reads a file from its last line to its first.
RECURSIVE ApplyLogFromBufreadLastFirst(_, _)
ApplyLogFromBufreadLastFirst(state, lines) ==
    IF lines = <<>> THEN [err |-> "Ok", state |-> state]
    ELSE IF ~lines[Len(lines)].valid THEN [err |-> "InvalidJson", state |-> state]
    ELSE ApplyLogFromBufreadLastFirst(ProcessAction(state, lines[Len(lines)].action),
                                      SubSeq(lines, 1, Len(lines) - 1))

\* apply_log_from_bufread: parse and apply line by line; the first invalid line
\* ends the loop with InvalidJson, the lines before it stay applied.
RECURSIVE ApplyLogFromBufread(_, _)
ApplyLogFromBufread(state, lines) ==
    IF lines = <<>> THEN [err |-> "Ok", state |-> state]
    ELSE IF ~Head(lines).valid THEN [err |-> "InvalidJson", state |-> state]
    ELSE ApplyLogFromBufread(ProcessAction(state, Head(lines).action), Tail(lines))

(* ------------------------------------------------------------------ *)
(* The object store and the handles                                     *)
(* ------------------------------------------------------------------ *)

VARIABLES
    log,               \* version -> Option<lines>: <log_path>/<20-digit version>.json
    last_checkpoint,   \* Option<CheckPoint>: <log_path>/_last_checkpoint
    checkpoint_files,  \* checkpoint part path -> rows
    tmp_files,         \* token -> lines: <log_path>/_commit_<token>.json
    table,             \* handle -> DeltaTable {version, state, last_check_point}
    pc,                \* handle -> position inside the call in progress
    call,              \* handle -> the call in progress or last returned
    calls_left,        \* handle -> number of calls it may still start
    renamed,           \* history: version -> number of renames to it that succeeded
    returned,          \* history: version -> number of commits that returned it
    logs_deleted,      \* history: some log entry was removed from the store
    loaded,            \* history: handle -> a load() of it has succeeded
    search,            \* load_with_datetime: the table's timestamps and the search's locals
    projector,         \* process_action: the actions replayed so far and the state they gave
    snapshot,          \* load on a log cut into entries, with or without a checkpoint
    vac,               \* vacuum: its inputs, the deletes it made and its result
    engine,            \* one call of the snapshot engine on a given store and handle
    query,             \* one get_files_by_partitions call: its table state, filters and result
    outage,            \* the storage operations and objects that fail with an error other than NotFound and AlreadyExists
    finder             \* find_latest_check_point_for_version on one listing: the listing, the limit and the result

main_vars == <<log, last_checkpoint, checkpoint_files, tmp_files, table, pc, call,
               calls_left, renamed, returned, logs_deleted, loaded>>

\* The state of the operations that are modelled on their own inputs.
aux_vars == <<search, projector, snapshot, vac, engine, query, outage, finder>>

vars == <<main_vars, aux_vars>>

store_vars == <<log, last_checkpoint, checkpoint_files, tmp_files>>

history_vars == <<renamed, returned, logs_deleted, loaded>>

\* What the read operations see of the store.
Store == [log |-> log, last_checkpoint |-> last_checkpoint,
          checkpoint_files |-> checkpoint_files, faults |-> outage.faults]

\* CheckPoint {version, size, parts}
CheckPoint(v, size, parts) == [version |-> v, size |-> size, parts |-> parts]

\* An equality of descriptors that compares every field.
CheckPointEqAllFields(c1, c2) == c1 = c2

\* impl PartialEq for CheckPoint: the version alone
CheckPointEq(c1, c2) == c1.version = c2.version

\* Option<CheckPoint> equality as derived from CheckPointEq
OptCheckPointEq(o1, o2) ==
    IF o1 = None \/ o2 = None THEN o1 = None /\ o2 = None
    ELSE CheckPointEq(o1[1], o2[1])

\* The path of one checkpoint file: part = 0 of parts = 0 is the single-part
\* "<version>.checkpoint.parquet", part i of n is
\* "<version>.checkpoint.<i>.<n>.parquet".
CheckpointPath(v, i, n) == [version |-> v, part |-> i, parts |-> n]

get_checkpoint_data_paths(check_point) ==
    IF check_point.parts = None
    THEN << CheckpointPath(check_point.version, 0, 0) >>
    ELSE [i \in 1..check_point.parts[1] |->
             CheckpointPath(check_point.version, i, check_point.parts[1])]

\* storage.get_obj / head_obj of version_to_log_path(version): None is NotFound
GetLogObj(S, version) ==
    IF version \in DOMAIN S.log THEN S.log[version] ELSE None

\* An object of the store that cannot be read as it should: get_obj and head_obj
\* of it fail with a storage error other than NotFound (error "Other"), or its
\* content is not the JSON expected (error "InvalidJson", for _last_checkpoint).
Fault(object, version, error) ==
    [object |-> object, version |-> version, error |-> error]

\* The result of storage.get_obj / head_obj of version_to_log_path(version)
LogObjError(S, version) ==
    IF Fault("log", version, "Other") \in S.faults THEN "Other"
    ELSE IF GetLogObj(S, version) = None THEN "NotFound"
    ELSE "Ok"

\* A conversion that takes every storage error for the end of the log.
ApplyLogErrorAlwaysEndOfLog(error) == "EndOfLog"

\* From<StorageError> for ApplyLogError
ApplyLogErrorFromStorage(error) ==
    IF error = "NotFound" THEN "EndOfLog" ELSE "Storage"

\* From<StorageError> for LoadCheckpointError
LoadCheckpointErrorFromStorage(error) ==
    IF error = "NotFound" THEN "NotFound" ELSE "Storage"

\* get_last_checkpoint: None is LoadCheckpointError::NotFound
get_last_checkpoint(S) == S.last_checkpoint

\* The error of get_last_checkpoint: that of get_obj converted, or InvalidJson
\* from serde_json::from_slice; "Ok" when it returns a descriptor.
GetLastCheckpointError(S) ==
    IF Fault("_last_checkpoint", 0, "Other") \in S.faults
    THEN LoadCheckpointErrorFromStorage("Other")
    ELSE IF get_last_checkpoint(S) = None THEN LoadCheckpointErrorFromStorage("NotFound")
    ELSE IF Fault("_last_checkpoint", 0, "InvalidJson") \in S.faults THEN "InvalidJson"
    ELSE "Ok"

\* DeltaTableError::LoadCheckpoint { source }
LoadCheckpoint(source) ==
    IF source = "Storage" THEN "LoadCheckpoint { Storage }"
    ELSE "LoadCheckpoint { InvalidJson }"

\* apply_log: a missing object is EndOfLog (From<StorageError> for ApplyLogError)
apply_log(S, state, version) ==
    LET error == LogObjError(S, version) IN
    IF error # "Ok" THEN [err |-> ApplyLogErrorFromStorage(error), state |-> state]
    ELSE ApplyLogFromBufread(state, GetLogObj(S, version)[1])

\* The row loop of restore_checkpoint over one part file.
RECURSIVE ApplyRows(_, _)
ApplyRows(state, rows) ==
    IF rows = <<>> THEN [err |-> "Ok", state |-> state]
    ELSE IF ~Head(rows).valid THEN [err |-> "InvalidAction", state |-> state]
    ELSE ApplyRows(ProcessAction(state, Head(rows).action), Tail(rows))

\* The part loop of restore_checkpoint.
RECURSIVE RestoreParts(_, _, _)
RestoreParts(S, state, paths) ==
    IF paths = <<>> THEN [err |-> "Ok", state |-> state]
    ELSE IF Head(paths) \notin DOMAIN S.checkpoint_files
         THEN [err |-> "StorageError", state |-> state]
    ELSE LET r == ApplyRows(state, S.checkpoint_files[Head(paths)]) IN
         IF r.err # "Ok" THEN r ELSE RestoreParts(S, r.state, Tail(paths))

\* restore_checkpoint: the state is reset, then every part is replayed into it
restore_checkpoint(S, check_point) ==
    RestoreParts(S, DefaultState, get_checkpoint_data_paths(check_point))

\* Variant of apply_logs_after_current_version that steps back two versions at
\* the end of the log.
RECURSIVE apply_logs_step_back_two(_, _)
apply_logs_step_back_two(S, t) ==
    LET r == apply_log(S, t.state, t.version) IN
    IF r.err = "Ok"
    THEN apply_logs_step_back_two(S,
            [t EXCEPT !.state = r.state, !.replayed = t.version,
                      !.version = t.version + 1])
    ELSE IF r.err = "EndOfLog"
    THEN IF t.version - 1 = -1
         THEN [err |-> "NotATable", t |-> [t EXCEPT !.version = t.version - 1]]
         ELSE [err |-> "Ok", t |-> [t EXCEPT !.version = t.version - 2]]
    ELSE [err |-> r.err, t |-> [t EXCEPT !.state = r.state]]

\* Variant of apply_logs_after_current_version without the NotATable case.
RECURSIVE apply_logs_without_not_a_table(_, _)
apply_logs_without_not_a_table(S, t) ==
    LET r == apply_log(S, t.state, t.version) IN
    IF r.err = "Ok"
    THEN apply_logs_without_not_a_table(S,
            [t EXCEPT !.state = r.state, !.replayed = t.version,
                      !.version = t.version + 1])
    ELSE IF r.err = "EndOfLog"
    THEN [err |-> "Ok", t |-> [t EXCEPT !.version = t.version - 1]]
    ELSE [err |-> r.err, t |-> [t EXCEPT !.state = r.state]]

\* apply_logs_after_current_version: replay until EndOfLog, then step back
RECURSIVE apply_logs_after_current_version(_, _)
apply_logs_after_current_version(S, t) ==
    LET r == apply_log(S, t.state, t.version) IN
    IF r.err = "Ok"
    THEN apply_logs_after_current_version(S,
            [t EXCEPT !.state = r.state, !.replayed = t.version,
                      !.version = t.version + 1])
    ELSE IF r.err = "EndOfLog"
    THEN IF t.version - 1 = -1
         THEN [err |-> "NotATable", t |-> [t EXCEPT !.version = t.version - 1]]
         ELSE [err |-> "Ok", t |-> [t EXCEPT !.version = t.version - 1]]
    ELSE [err |-> r.err, t |-> [t EXCEPT !.state = r.state]]

\* DeltaTable::load
load(S, t) ==
    LET c == get_last_checkpoint(S)
        error == GetLastCheckpointError(S)
    IN
    IF error \notin {"Ok", "NotFound"} THEN [err |-> LoadCheckpoint(error), t |-> t]
    ELSE IF error = "Ok"
    THEN LET r == restore_checkpoint(S, c[1])
             t1 == [t EXCEPT !.last_check_point = c, !.state = r.state,
                             !.replayed = IF r.err = "Ok" THEN c[1].version ELSE -1]
         IN  IF r.err # "Ok" THEN [err |-> r.err, t |-> t1]
             ELSE apply_logs_after_current_version(S,
                     [t1 EXCEPT !.version = c[1].version + 1])
    ELSE apply_logs_after_current_version(S, [t EXCEPT !.version = 0])

\* DeltaTable::update
update(S, t) ==
    LET c == get_last_checkpoint(S)
        error == GetLastCheckpointError(S)
    IN
    IF error \notin {"Ok", "NotFound"} THEN [err |-> LoadCheckpoint(error), t |-> t]
    ELSE IF error = "Ok"
    THEN IF ~OptCheckPointEq(t.last_check_point, c)
         THEN LET r == restore_checkpoint(S, c[1])
                  t1 == [t EXCEPT !.last_check_point = c, !.state = r.state,
                                  !.replayed = IF r.err = "Ok" THEN c[1].version ELSE -1]
              IN  IF r.err # "Ok" THEN [err |-> r.err, t |-> t1]
                  ELSE apply_logs_after_current_version(S,
                          [t1 EXCEPT !.version = c[1].version + 1])
         ELSE apply_logs_after_current_version(S, t)
    ELSE apply_logs_after_current_version(S, [t EXCEPT !.version = t.version + 1])

\* A scan that does not skip the checkpoints newer than the version asked for.
RECURSIVE FindLatestIgnoringLimit(_, _, _)
FindLatestIgnoringLimit(cp, listing, version) ==
    IF listing = <<>> THEN cp
    ELSE LET p == Head(listing)
             found == IF p.parts = 0
                      THEN CheckPoint(p.version, 0, None)
                      ELSE CheckPoint(p.version, 0, Some(p.parts))
         IN  IF cp = None \/ p.version > cp[1].version
             THEN FindLatestIgnoringLimit(Some(found), Tail(listing), version)
             ELSE FindLatestIgnoringLimit(cp, Tail(listing), version)

\* find_latest_check_point_for_version over one listing of the log directory:
\* only checkpoint part paths match the two patterns.
RECURSIVE FindLatestFrom(_, _, _)
FindLatestFrom(cp, listing, version) ==
    IF listing = <<>> THEN cp
    ELSE LET p == Head(listing)
             found == IF p.parts = 0
                      THEN CheckPoint(p.version, 0, None)
                      ELSE CheckPoint(p.version, 0, Some(p.parts))
         IN  IF p.version > version THEN FindLatestFrom(cp, Tail(listing), version)
             ELSE IF cp = None \/ p.version > cp[1].version
                  THEN FindLatestFrom(Some(found), Tail(listing), version)
                  ELSE FindLatestFrom(cp, Tail(listing), version)

find_latest_check_point_for_version(listing, version) ==
    FindLatestFrom(None, listing, version)

\* storage.list_objs(log_path): the checkpoint paths in any order
ListObjs(S) ==
    LET D == DOMAIN S.checkpoint_files
        n == Cardinality(D)
    IN  {l \in [1..n -> D] : \A i, j \in 1..n : l[i] = l[j] => i = j}

\* The bounded replay of load_version: every error, EndOfLog included, propagates.
RECURSIVE ApplyLogsUpTo(_, _, _, _, _)
ApplyLogsUpTo(S, state, replayed, next_version, version) ==
    IF next_version > version
    THEN [err |-> "Ok", state |-> state, replayed |-> replayed]
    ELSE LET r == apply_log(S, state, next_version) IN
         IF r.err # "Ok"
         THEN [err |-> r.err, state |-> r.state, replayed |-> replayed]
         ELSE ApplyLogsUpTo(S, r.state, next_version, next_version + 1, version)

\* Variant of load_version that assigns the version before it looks for the entry.
load_version_assigns_first(S, t, version, listing) ==
    IF GetLogObj(S, version) = None
    THEN [err |-> "InvalidVersion", t |-> [t EXCEPT !.version = version]]
    ELSE LET c == find_latest_check_point_for_version(listing, version)
             r0 == IF c # None THEN restore_checkpoint(S, c[1])
                   ELSE [err |-> "Ok", state |-> t.state]
             replayed0 == IF c = None THEN t.replayed
                          ELSE IF r0.err = "Ok" THEN c[1].version ELSE -1
             next_version == IF c # None THEN c[1].version + 1 ELSE 0
             r1 == IF r0.err # "Ok"
                   THEN [err |-> r0.err, state |-> r0.state, replayed |-> replayed0]
                   ELSE ApplyLogsUpTo(S, r0.state, replayed0, next_version, version)
         IN  [err |-> r1.err,
              t |-> [t EXCEPT !.version = version, !.state = r1.state,
                              !.replayed = r1.replayed]]

\* DeltaTable::load_version
load_version(S, t, version, listing) ==
    IF LogObjError(S, version) = "NotFound" THEN [err |-> "InvalidVersion", t |-> t]
    ELSE IF LogObjError(S, version) # "Ok" THEN [err |-> "StorageError", t |-> t]
    ELSE LET c == find_latest_check_point_for_version(listing, version)
             r0 == IF c # None THEN restore_checkpoint(S, c[1])
                   ELSE [err |-> "Ok", state |-> t.state]
             replayed0 == IF c = None THEN t.replayed
                          ELSE IF r0.err = "Ok" THEN c[1].version ELSE -1
             next_version == IF c # None THEN c[1].version + 1 ELSE 0
             r1 == IF r0.err # "Ok"
                   THEN [err |-> r0.err, state |-> r0.state, replayed |-> replayed0]
                   ELSE ApplyLogsUpTo(S, r0.state, replayed0, next_version, version)
         IN  [err |-> r1.err,
              t |-> [t EXCEPT !.version = version, !.state = r1.state,
                              !.replayed = r1.replayed]]

\* DeltaTable::new.  replayed is history: the version of the log entry applied last
\* to state, or of the checkpoint restored into it, -1 when there is none.
NewTable == [version |-> 0, state |-> DefaultState, last_check_point |-> None,
             replayed |-> -1]

(* ------------------------------------------------------------------ *)
(* Storage writes and the commit protocol                               *)
(* ------------------------------------------------------------------ *)

\* storage.put_obj(tmp_commit_log_path(token), log_entry): overwrite allowed
put_obj(tmp, token, lines) ==
    [x \in (DOMAIN tmp) \cup {token} |-> IF x = token THEN lines ELSE tmp[x]]

\* storage.rename_obj(tmp_commit_log_path(token), version_to_log_path(version)):
\* create-exclusive on the destination
rename_obj(lg, tmp, token, version) ==
    IF lg[version] # None
    THEN [err |-> "AlreadyExists", log |-> lg, tmp_files |-> tmp]
    ELSE [err |-> "Ok",
          log |-> [lg EXCEPT ![version] = Some(tmp[token])],
          tmp_files |-> [x \in (DOMAIN tmp) \ {token} |-> tmp[x]]]

\* Variant of the conversion that takes every storage error for a conflict.
AttemptErrorAlwaysVersionExists(err) == "VersionExists"

\* Variant of the conversion in which AlreadyExists is a storage error like any other.
AttemptErrorWithoutVersionExists(err) == "Storage"

\* From<StorageError> for TransactionCommitAttemptError
AttemptErrorFromStorage(err) ==
    IF err = "AlreadyExists" THEN "VersionExists" ELSE "Storage"

\* Variant of the conversion that has no VersionAlreadyExists case.
TransactionErrorWithoutVersionExists(err) == "TransactionCommitAttempt"

\* From<TransactionCommitAttemptError> for DeltaTransactionError
TransactionErrorFromAttempt(err) ==
    IF err = "VersionExists" THEN "VersionAlreadyExists" ELSE "TransactionCommitAttempt"

\* Variant of try_commit that replaces whatever is at the version path.
try_commit_overwrite(lg, tmp, token, version) ==
    [err |-> "Ok",
     log |-> [lg EXCEPT ![version] = Some(tmp[token])],
     tmp_files |-> [x \in (DOMAIN tmp) \ {token} |-> tmp[x]]]

\* Variant of try_commit that reports success without creating the entry when the
\* version path is taken.
try_commit_ignore_exists(lg, tmp, token, version) ==
    LET r == rename_obj(lg, tmp, token, version) IN
    [r EXCEPT !.err = "Ok"]

\* Variant of try_commit that deletes the temporary file when the rename fails.
try_commit_removes_tmp(lg, tmp, token, version) ==
    LET r == IF "rename_obj" \in outage.failing
             THEN [err |-> "Other", log |-> lg, tmp_files |-> tmp]
             ELSE rename_obj(lg, tmp, token, version)
    IN
    IF r.err = "Ok" THEN r
    ELSE [r EXCEPT !.err = AttemptErrorFromStorage(r.err),
                   !.tmp_files = [x \in (DOMAIN tmp) \ {token} |-> tmp[x]]]

\* DeltaTransaction::try_commit: the rename, its error converted by `?`
try_commit(lg, tmp, token, version) ==
    LET r == IF "rename_obj" \in outage.failing
             THEN [err |-> "Other", log |-> lg, tmp_files |-> tmp]
             ELSE rename_obj(lg, tmp, token, version)
    IN
    IF r.err = "Ok" THEN r
    ELSE [r EXCEPT !.err = AttemptErrorFromStorage(r.err)]

\* DeltaTransactionOptions::default()
DEFAULT_DELTA_MAX_RETRY_COMMIT_ATTEMPTS == 10000000

\* The values of max_retry_commit_attempts a transaction is created with.
RetryOptions == {0}

\* u32::MAX, the largest max_retry_commit_attempts, written as the signed number
\* with the same 32 bits: adding 1 to it gives 0, as wrapping u32 addition does.
U32_MAX == -1

\* `max_retry_commit_attempts + 1` in u32 arithmetic, by build: with overflow
\* checks (TRUE) a sum that does not fit panics, without them (FALSE) it wraps.
\* The build shows at the first evaluation: a call whose attempt_number is past 0
\* runs in a build that wraps.
OverflowBuilds(max_retry_commit_attempts, attempt_number) ==
    IF max_retry_commit_attempts = U32_MAX /\ attempt_number = 0 THEN BOOLEAN
    ELSE {FALSE}

\* The action lists the handles commit.
CommitActions == { <<Add("a")>> }

\* The highest version with a log entry, -1 when there is none.
LatestVersion(lg) ==
    IF \A v \in DOMAIN lg : lg[v] = None THEN -1
    ELSE CHOOSE v \in DOMAIN lg : lg[v] # None /\ \A w \in DOMAIN lg : lg[w] # None => w <= v

Token(a, n) == <<a, n>>

\* The record of a call: its arguments, its locals and, once it returned, its result.
NoCall(a) ==
    [op |-> "none", version |-> 0, actions |-> <<>>, token |-> Token(a, 0),
     attempt_number |-> 0, max_retry_commit_attempts |-> 0, rename_attempts |-> 0,
     pre |-> NewTable, pre_latest |-> -1, interfered |-> FALSE, status |-> "none"]

StartCall(a, op, version, actions, retries, pre, pre_latest) ==
    [op |-> op, version |-> version, actions |-> actions,
     token |-> Token(a, calls_left[a]),
     attempt_number |-> 0, max_retry_commit_attempts |-> retries, rename_attempts |-> 0,
     pre |-> pre, pre_latest |-> pre_latest, interfered |-> FALSE, status |-> "running"]

CanStart(a) == pc[a] = "idle" /\ calls_left[a] > 0

\* A read-only call: one step from idle to idle.
ReadCall(a, op, version, r) ==
    /\ table' = [table EXCEPT ![a] = r.t]
    /\ call' = [call EXCEPT ![a] =
                  [StartCall(a, op, version, <<>>, 0, NewTable, -1) EXCEPT !.status = r.err]]
    /\ calls_left' = [calls_left EXCEPT ![a] = @ - 1]
    /\ UNCHANGED <<pc, store_vars, renamed, returned, logs_deleted, aux_vars>>

Load(a) ==
    /\ CanStart(a)
    /\ ReadCall(a, "load", 0, load(Store, table[a]))
    /\ loaded' = [loaded EXCEPT ![a] = @ \/ load(Store, table[a]).err = "Ok"]

Update(a) ==
    /\ CanStart(a)
    /\ ReadCall(a, "update", 0, update(Store, table[a]))
    /\ UNCHANGED loaded

LoadVersion(a) ==
    /\ CanStart(a)
    /\ \E version \in DOMAIN log, listing \in ListObjs(Store) :
          ReadCall(a, "load_version", version,
                   load_version(Store, table[a], version, listing))
    /\ UNCHANGED loaded

\* prepare_commit: stage the log entry under a fresh token
PrepareCommit(a, op, version, actions, retries, next_pc) ==
    /\ IF "put_obj" \in outage.failing
       THEN /\ tmp_files' = tmp_files
            /\ call' = [call EXCEPT ![a] =
                  [StartCall(a, op, version, actions, retries, table[a], LatestVersion(log))
                      EXCEPT !.status =
                         TransactionErrorFromAttempt(AttemptErrorFromStorage("Other"))]]
            /\ pc' = pc
       ELSE /\ tmp_files' = put_obj(tmp_files, Token(a, calls_left[a]),
                                    LogEntryFromActions(actions))
            /\ call' = [call EXCEPT ![a] =
                  StartCall(a, op, version, actions, retries, table[a], LatestVersion(log))]
            /\ pc' = [pc EXCEPT ![a] = next_pc]
    /\ calls_left' = [calls_left EXCEPT ![a] = @ - 1]
    /\ UNCHANGED <<log, last_checkpoint, checkpoint_files, table, history_vars, aux_vars>>

\* commit_with up to the put of try_commit_loop, for a transaction created with
\* one of `options` as max_retry_commit_attempts
CommitWithOptions(a, options) ==
    /\ CanStart(a)
    /\ \E actions \in CommitActions, retries \in options :
          PrepareCommit(a, "commit_with", 0, actions, retries, "next_attempt_version")

CommitWith(a) == CommitWithOptions(a, RetryOptions)

\* commit_version up to the put of prepare_commit
CommitVersion(a) ==
    /\ CanStart(a)
    /\ \E version \in DOMAIN log, actions \in CommitActions :
          PrepareCommit(a, "commit_version", version, actions, 0, "try_commit")

Return(a, status) ==
    /\ call' = [call EXCEPT ![a].status = status]
    /\ pc' = [pc EXCEPT ![a] = "idle"]

\* Variant of next_attempt_version that returns version + 2.
NextAttemptVersionSkipsOne(a) ==
    /\ pc[a] = "next_attempt_version"
    /\ LET r == update(Store, table[a]) IN
         /\ table' = [table EXCEPT ![a] = r.t]
         /\ IF r.err = "Ok"
            THEN /\ call' = [call EXCEPT ![a].version = r.t.version + 2]
                 /\ pc' = [pc EXCEPT ![a] = "try_commit_loop"]
            ELSE Return(a, TransactionErrorFromAttempt("DeltaTable"))
    /\ UNCHANGED <<store_vars, calls_left, history_vars, aux_vars>>

\* next_attempt_version: update, then version + 1
NextAttemptVersion(a) ==
    /\ pc[a] = "next_attempt_version"
    /\ LET r == update(Store, table[a]) IN
         /\ table' = [table EXCEPT ![a] = r.t]
         /\ IF r.err = "Ok"
            THEN /\ call' = [call EXCEPT ![a].version = r.t.version + 1]
                 /\ pc' = [pc EXCEPT ![a] = "try_commit_loop"]
            ELSE Return(a, TransactionErrorFromAttempt("DeltaTable"))
    /\ UNCHANGED <<store_vars, calls_left, history_vars, aux_vars>>

\* A change of the store by anyone else is interference for the calls in progress.
Interfere(others) ==
    [a \in Handles |->
        IF a \in others /\ pc[a] # "idle" THEN [call[a] EXCEPT !.interfered = TRUE]
        ELSE call[a]]

\* The storage effect of try_commit, with the history of successful renames.
DoTryCommit(a, r) ==
    /\ log' = r.log
    /\ tmp_files' = r.tmp_files
    /\ renamed' = IF r.err = "Ok"
                  THEN [renamed EXCEPT ![call[a].version] = @ + 1]
                  ELSE renamed
    /\ UNCHANGED <<last_checkpoint, checkpoint_files, table, calls_left, returned,
                   logs_deleted, loaded, aux_vars>>

\* The caller's record after a rename attempt; a successful rename interferes
\* with the calls of the other handles.
AfterTryCommit(a, r, mine) ==
    call' = [(IF r.err = "Ok" THEN Interfere(Handles \ {a}) ELSE call)
                EXCEPT ![a] = [mine EXCEPT !.rename_attempts = @ + 1]]

\* One turn of the loop of try_commit_loop after next_attempt_version.
TryCommitLoop(a) ==
    /\ pc[a] = "try_commit_loop"
    /\ call[a].version \in DOMAIN log
    /\ \E overflow_checks \in OverflowBuilds(call[a].max_retry_commit_attempts,
                                         call[a].attempt_number) :
       LET c == call[a]
           r == try_commit(log, tmp_files, c.token, c.version)
       IN  /\ DoTryCommit(a, r)
           /\ IF r.err = "Ok"
              THEN /\ AfterTryCommit(a, r, c)
                   /\ pc' = [pc EXCEPT ![a] = "update"]
              ELSE IF r.err = "VersionExists" /\ overflow_checks
              THEN /\ AfterTryCommit(a, r, [c EXCEPT !.status = "Panic"])
                   /\ pc' = [pc EXCEPT ![a] = "idle"]
              ELSE IF r.err = "VersionExists"
                      /\ c.attempt_number > c.max_retry_commit_attempts + 1
              THEN /\ AfterTryCommit(a, r,
                          [c EXCEPT !.status = TransactionErrorFromAttempt(r.err)])
                   /\ pc' = [pc EXCEPT ![a] = "idle"]
              ELSE IF r.err = "VersionExists"
              THEN /\ AfterTryCommit(a, r, [c EXCEPT !.attempt_number = @ + 1])
                   /\ pc' = [pc EXCEPT ![a] = "next_attempt_version"]
              ELSE /\ AfterTryCommit(a, r,
                          [c EXCEPT !.status = TransactionErrorFromAttempt(r.err)])
                   /\ pc' = [pc EXCEPT ![a] = "idle"]

\* The single try_commit of commit_version.
TryCommit(a) ==
    /\ pc[a] = "try_commit"
    /\ LET c == call[a]
           r == try_commit(log, tmp_files, c.token, c.version)
       IN  /\ DoTryCommit(a, r)
           /\ IF r.err = "Ok"
              THEN /\ AfterTryCommit(a, r, c)
                   /\ pc' = [pc EXCEPT ![a] = "update"]
              ELSE /\ AfterTryCommit(a, r,
                          [c EXCEPT !.status = TransactionErrorFromAttempt(r.err)])
                   /\ pc' = [pc EXCEPT ![a] = "idle"]

\* The update that ends commit_with and commit_version, and the return of the version.
UpdateAfterCommit(a) ==
    /\ pc[a] = "update"
    /\ LET r == update(Store, table[a]) IN
         /\ table' = [table EXCEPT ![a] = r.t]
         /\ Return(a, IF r.err = "Ok" THEN "Ok" ELSE "DeltaTable")
         /\ returned' = IF r.err = "Ok"
                        THEN [returned EXCEPT ![call[a].version] = @ + 1]
                        ELSE returned
    /\ UNCHANGED <<store_vars, calls_left, renamed, logs_deleted, loaded, aux_vars>>

(* ------------------------------------------------------------------ *)
(* The environment: other writers of the same table                     *)
(* ------------------------------------------------------------------ *)

\* The entries another writer commits: a well-formed one and a malformed one.
ExternalEntries == { LogEntryFromActions(<<Add("b"), Remove("a")>>), <<BadLine>> }

\* A change of the store by another party: it interferes with the calls in
\* progress, and the record of a call that has returned, which describes that
\* return against the store as it was, is dropped.
StoreChanged ==
    [a \in Handles |->
        IF pc[a] = "idle" THEN NoCall(a) ELSE [call[a] EXCEPT !.interfered = TRUE]]

\* Some handle still has a step to take: the store's changes after the last call
\* has returned are seen by nobody.
Watched == \E a \in Handles : pc[a] # "idle" \/ calls_left[a] > 0

\* Another writer commits the entry after the latest one.
ExternalCommit ==
    /\ Watched
    /\ LatestVersion(log) + 1 \in DOMAIN log
    /\ last_checkpoint # None => last_checkpoint[1].version <= LatestVersion(log)
    /\ \E lines \in ExternalEntries :
          log' = [log EXCEPT ![LatestVersion(log) + 1] = Some(lines)]
    /\ call' = StoreChanged
    /\ UNCHANGED <<last_checkpoint, checkpoint_files, tmp_files, table, pc, calls_left,
                   history_vars, aux_vars>>

RECURSIVE SetToSeq(_)
SetToSeq(s) ==
    IF s = {} THEN <<>>
    ELSE LET x == CHOOSE y \in s : TRUE IN <<x>> \o SetToSeq(s \ {x})

\* The rows a checkpoint writer emits for a table state: protocol, metaData, the
\* live files and the tombstones in either order, and the application
\* transactions.
CheckpointRows(state, removes_first) ==
    LET apps == SetToSeq(DOMAIN state.app_transaction_version)
        meta == IF state.current_metadata = None THEN <<>>
                ELSE << MetaData(state.current_metadata[1].id,
                                 state.current_metadata[1].partition_columns) >>
        actions == << Protocol(state.min_reader_version, state.min_writer_version) >>
                   \o meta
                   \o (IF removes_first THEN state.tombstones \o state.files
                       ELSE state.files \o state.tombstones)
                   \o [i \in 1..Len(apps) |->
                          Txn(apps[i], state.app_transaction_version[apps[i]])]
    IN  [i \in 1..Len(actions) |-> ToJson(actions[i])]

\* Another writer condenses the entries up to the latest version into a
\* single-part checkpoint, files before tombstones, and then points
\* _last_checkpoint at it; the pointer only moves forward.
WriteCheckpoint ==
    \E version \in {LatestVersion(log)} \cap DOMAIN log :
       LET r == ApplyLogsUpTo(Store, DefaultState, -1, 0, version)
           rows == CheckpointRows(r.state, FALSE)
       IN
       /\ Watched
       /\ r.err = "Ok"
       /\ last_checkpoint # None => last_checkpoint[1].version < version
       /\ checkpoint_files' =
             [x \in (DOMAIN checkpoint_files) \cup {CheckpointPath(version, 0, 0)} |->
                 IF x = CheckpointPath(version, 0, 0) THEN rows
                 ELSE checkpoint_files[x]]
       /\ last_checkpoint' = Some(CheckPoint(version, Len(rows), None))
       /\ call' = StoreChanged
       /\ UNCHANGED <<log, tmp_files, table, pc, calls_left, history_vars, aux_vars>>

\* Log retention: the entries the checkpoint covers are removed.
CleanupLogs ==
    /\ Watched
    /\ last_checkpoint # None
    /\ \E version \in {last_checkpoint[1].version} :
          /\ log[version] # None
          /\ log' = [v \in DOMAIN log |-> IF v <= version THEN None ELSE log[v]]
    /\ logs_deleted' = TRUE
    /\ call' = StoreChanged
    /\ UNCHANGED <<last_checkpoint, checkpoint_files, tmp_files, table, pc, calls_left,
                   renamed, returned, loaded, aux_vars>>

\* The checkpoint file _last_checkpoint names becomes unreadable (it is removed).
LoseCheckpoint ==
    /\ Watched
    /\ last_checkpoint # None
    /\ CheckpointPath(last_checkpoint[1].version, 0, 0) \in DOMAIN checkpoint_files
    /\ checkpoint_files' =
          [x \in (DOMAIN checkpoint_files) \ {CheckpointPath(last_checkpoint[1].version, 0, 0)}
              |-> checkpoint_files[x]]
    /\ call' = StoreChanged
    /\ UNCHANGED <<log, last_checkpoint, tmp_files, table, pc, calls_left, history_vars,
                   aux_vars>>

(* ------------------------------------------------------------------ *)
(* Specification                                                        *)
(* ------------------------------------------------------------------ *)

\* An empty directory and handles as DeltaTable::new makes them.
InitWith(versions, budget) ==
    /\ log = [v \in versions |-> None]
    /\ last_checkpoint = None
    /\ checkpoint_files = <<>>
    /\ tmp_files = <<>>
    /\ table = [a \in Handles |-> NewTable]
    /\ pc = [a \in Handles |-> "idle"]
    /\ call = [a \in Handles |-> NoCall(a)]
    /\ calls_left = budget
    /\ renamed = [v \in versions |-> 0]
    /\ returned = [v \in versions |-> 0]
    /\ logs_deleted = FALSE
    /\ loaded = [a \in Handles |-> FALSE]

\* No load_with_datetime in progress.
NoSearch == [pc |-> "none"]

\* The projector on its own has replayed nothing.
NoProjector == [history |-> <<>>, state |-> DefaultState]

\* No log has been cut and loaded.
NoSnapshot == [pc |-> "none"]

\* No vacuum has been called.
NoVacuum == [pc |-> "none"]

\* No engine call on a store of its own.
NoEngine == [pc |-> "none"]

\* No get_files_by_partitions call is modelled.
NoQuery == [pc |-> "none"]

\* The storage works.
NoOutage == [failing |-> {}, faults |-> {}]

\* No listing is searched.
NoFinder == [pc |-> "none"]

Init ==
    /\ InitWith(0..MaxVersion, [a \in Handles |-> IF a = "h1" THEN MaxCalls ELSE 0])
    /\ search = NoSearch
    /\ projector = NoProjector
    /\ snapshot = NoSnapshot
    /\ vac = NoVacuum
    /\ engine = NoEngine
    /\ query = NoQuery
    /\ outage = NoOutage
    /\ finder = NoFinder

\* One handle uses the whole API while other writers change the store.
Next ==
    \/ Load("h1")
    \/ Update("h1")
    \/ LoadVersion("h1")
    \/ CommitWith("h1")
    \/ CommitVersion("h1")
    \/ NextAttemptVersion("h1")
    \/ TryCommitLoop("h1")
    \/ TryCommit("h1")
    \/ UpdateAfterCommit("h1")
    \/ ExternalCommit
    \/ WriteCheckpoint
    \/ CleanupLogs
    \/ LoseCheckpoint

Spec == Init /\ [][Next]_vars

\* Several handles commit to the same table, each step interleaved with the others'.
InitWriters ==
    /\ InitWith(0..MaxWriterVersion, [a \in Handles |-> MaxWriterCalls])
    /\ search = NoSearch
    /\ projector = NoProjector
    /\ snapshot = NoSnapshot
    /\ vac = NoVacuum
    /\ engine = NoEngine
    /\ query = NoQuery
    /\ outage = NoOutage
    /\ finder = NoFinder

NextWriters ==
    \/ \E a \in Handles : CommitWith(a)
    \/ \E a \in Handles : CommitVersion(a)
    \/ \E a \in Handles : NextAttemptVersion(a)
    \/ \E a \in Handles : TryCommitLoop(a)
    \/ \E a \in Handles : TryCommit(a)
    \/ \E a \in Handles : UpdateAfterCommit(a)

SpecWriters == InitWriters /\ [][NextWriters]_vars

(* ------------------------------------------------------------------ *)
(* Properties                                                           *)
(* ------------------------------------------------------------------ *)

\* A step of a handle (the environment never moves pc or calls_left).
ProgramStep == pc' # pc \/ calls_left' # calls_left

\* The step in which handle a's call of op returns; a read call returns in the
\* step that starts it.
Returns(a, op) ==
    /\ call'[a].op = op
    /\ call'[a].status \notin {"none", "running"}
    /\ \/ calls_left'[a] # calls_left[a] /\ pc'[a] = "idle"
       \/ pc[a] # "idle" /\ pc'[a] = "idle"

\* A step in which an update() of handle a succeeds: the update call itself, the
\* one of next_attempt_version, or the one that ends a commit.
UpdateSucceeds(a) ==
    \/ Returns(a, "update") /\ call'[a].status = "Ok"
    \/ pc[a] = "next_attempt_version" /\ pc'[a] = "try_commit_loop"
    \/ pc[a] = "update" /\ pc'[a] = "idle" /\ call'[a].status = "Ok"

\* The adds of an action list, in order.
RECURSIVE AddsOf(_)
AddsOf(actions) ==
    IF actions = <<>> THEN <<>>
    ELSE IF Head(actions).tag = "add" THEN <<Head(actions)>> \o AddsOf(Tail(actions))
    ELSE AddsOf(Tail(actions))

\* C1: on a store with create-exclusive rename, for every interleaving of the
\* writers' commit steps, at most one rename to a version path succeeds, a
\* contender that lost has received AlreadyExists for a path that exists, and no
\* two commits return the same version.
C1_CommitLinearization ==
    /\ \A v \in DOMAIN log : renamed[v] <= 1 /\ returned[v] <= 1
    /\ \A a \in Handles :
          call[a].status = "VersionAlreadyExists" => log[call[a].version] # None

\* Two handles contended for one version: one committed it, the other was refused.
C1_Witness ==
    \E a, b \in Handles :
        /\ a # b
        /\ call[a].version = call[b].version
        /\ call[a].status = "Ok" /\ call[a].op \in {"commit_with", "commit_version"}
        /\ call[b].status = "VersionAlreadyExists"
        /\ renamed[call[a].version] = 1

\* C2: no step of load, update, load_version, commit_with or commit_version
\* changes or removes a log entry that exists.
C2_LogEntriesImmutable ==
    [][ProgramStep => \A v \in DOMAIN log : log[v] # None => log'[v] = log[v]]_vars

\* A commit was attempted against an entry another writer had created.
C2_Witness ==
    /\ call["h1"].op = "commit_version"
    /\ call["h1"].status = "VersionAlreadyExists"
    /\ log[call["h1"].version] # None
    /\ renamed[call["h1"].version] = 0

\* C3: with no other writer interfering, commit_with on a loaded handle at the
\* latest version n, which has seen the table's checkpoint if there is one,
\* returns n + 1, leaves handle.version at the returned version and files() equal
\* to the previous list followed by the adds of the actions.
C3_CommitWithAppends ==
    \A a \in Handles :
        ( /\ pc[a] = "idle"
          /\ call[a].op = "commit_with"
          /\ call[a].status = "Ok"
          /\ loaded[a]
          /\ ~call[a].interfered
          /\ call[a].pre.version = call[a].pre_latest
          /\ call[a].pre.last_check_point = last_checkpoint )
        => /\ call[a].version = call[a].pre_latest + 1
           /\ table[a].version = call[a].version
           /\ table[a].state.files = call[a].pre.state.files \o AddsOf(call[a].actions)

\* C4: commit_version(v, actions) whose rename found no entry v returns v, with
\* handle.version = v and every add of the actions in files().
C4_CommitVersionSucceeds ==
    \A a \in Handles :
        ( /\ pc[a] = "idle"
          /\ call[a].op = "commit_version"
          /\ call[a].status # "VersionAlreadyExists" )
        => /\ call[a].status = "Ok"
           /\ table[a].version = call[a].version
           /\ \A i \in 1..Len(AddsOf(call[a].actions)) :
                 \E j \in 1..Len(table[a].state.files) :
                     table[a].state.files[j] = AddsOf(call[a].actions)[i]

\* C5: a commit_version whose rename finds entry v makes that one rename attempt,
\* returns VersionAlreadyExists, and leaves the handle (version and state) as it
\* was when the call began and the store's log as it was.
C5_CommitVersionConflict ==
    [][\A a \in Handles :
          (pc[a] = "try_commit" /\ pc'[a] # "try_commit" /\ log[call[a].version] # None)
          => /\ pc'[a] = "idle"
             /\ call'[a].status = "VersionAlreadyExists"
             /\ call'[a].rename_attempts = 1
             /\ table'[a] = call[a].pre
             /\ log' = log]_vars

\* A commit_version was refused after its single rename attempt.
C5_Witness ==
    \E a \in Handles :
        /\ pc[a] = "idle"
        /\ call[a].op = "commit_version"
        /\ call[a].status = "VersionAlreadyExists"
        /\ call[a].rename_attempts = 1
        /\ loaded[a]

\* C6: once load() has succeeded, every successful update() leaves version and
\* state equal to those load() gives a new handle on the same store contents.
C6_UpdateEqualsFreshLoad ==
    [][\A a \in Handles :
          (Returns(a, "update") /\ call'[a].status = "Ok" /\ loaded[a])
          => LET fresh == load(Store', NewTable) IN
             /\ fresh.err = "Ok"
             /\ table'[a].version = fresh.t.version
             /\ table'[a].state = fresh.t.state]_vars

\* C7: while no log entry has been removed (and _last_checkpoint only moves
\* forward), on a handle whose load() has succeeded no successful update()
\* lowers handle.version.
C7_VersionMonotonic ==
    [][\A a \in Handles :
          (UpdateSucceeds(a) /\ loaded[a] /\ ~logs_deleted)
          => table'[a].version >= table[a].version]_vars

\* An update() after a successful load() moved the handle to a later version
\* found after a checkpoint.
C7_Witness ==
    /\ loaded["h1"]
    /\ ~logs_deleted
    /\ call["h1"].op = "update"
    /\ call["h1"].status = "Ok"
    /\ table["h1"].version >= 1
    /\ table["h1"].last_check_point # None

\* C8: after a successful load() or update() handle.version is the version of
\* the log entry applied last (or of the restored checkpoint) and entry
\* version + 1 does not exist; after a successful load_version(v) it is v.
C8_VersionIsLastReplayed ==
    [][\A a \in Handles :
          /\ ((Returns(a, "load") \/ Returns(a, "update")) /\ call'[a].status = "Ok")
             => /\ table'[a].version = table'[a].replayed
                /\ GetLogObj(Store', table'[a].version + 1) = None
          /\ (Returns(a, "load_version") /\ call'[a].status = "Ok")
             => table'[a].version = call'[a].version]_vars

\* The checkpoint _last_checkpoint names can be read in full.
ReadableCheckpoint(S) ==
    /\ S.last_checkpoint # None
    /\ restore_checkpoint(S, S.last_checkpoint[1]).err = "Ok"

\* The log entries load() reads: from entry 0, or from the one after the
\* checkpoint, up to the first missing one.
LoadReads(S) ==
    LET first == IF S.last_checkpoint = None THEN 0 ELSE S.last_checkpoint[1].version + 1
    IN  {v \in DOMAIN S.log : v >= first /\ \A w \in first..v : S.log[w] # None}

WellFormed(lines) == \A i \in 1..Len(lines) : lines[i].valid

ReadsWellFormed(S) == \A v \in LoadReads(S) : WellFormed(S.log[v][1])

\* C9 as stated: load() fails with NotATable when there is neither a
\* _last_checkpoint nor entry 0, and succeeds whenever entry 0 or a readable
\* checkpoint exists and the entries it reads are well-formed.
C9_LoadOutcome ==
    [][\A a \in Handles : Returns(a, "load") =>
          /\ (last_checkpoint = None /\ log[0] = None) => call'[a].status = "NotATable"
          /\ ((log[0] # None \/ ReadableCheckpoint(Store)) /\ ReadsWellFormed(Store))
             => call'[a].status = "Ok"]_vars

\* C9 amended: load() fails with NotATable when there is neither a
\* _last_checkpoint nor entry 0; it succeeds whenever the entries it reads are
\* well-formed and either there is no _last_checkpoint and entry 0 exists, or the
\* checkpoint that _last_checkpoint names is readable.
C9_LoadOutcomeAmended ==
    [][\A a \in Handles : Returns(a, "load") =>
          /\ (last_checkpoint = None /\ log[0] = None) => call'[a].status = "NotATable"
          /\ ( /\ \/ last_checkpoint = None /\ log[0] # None
                  \/ ReadableCheckpoint(Store)
               /\ ReadsWellFormed(Store) )
             => call'[a].status = "Ok"]_vars

\* A load() succeeded from a checkpoint alone, entry 0 having been removed.
C9_Witness ==
    /\ call["h1"].op = "load"
    /\ call["h1"].status = "Ok"
    /\ table["h1"].last_check_point # None
    /\ log[0] = None

\* C10: load_version(v) for a v without a log entry fails with InvalidVersion
\* and leaves the handle, version and state, as it was.
C10_InvalidVersion ==
    [][\A a \in Handles :
          (Returns(a, "load_version") /\ GetLogObj(Store, call'[a].version) = None)
          => /\ call'[a].status = "InvalidVersion"
             /\ table'[a] = table[a]]_vars

\* A loaded handle was asked for a version that has no entry.
C10_Witness ==
    /\ call["h1"].op = "load_version"
    /\ call["h1"].status = "InvalidVersion"
    /\ loaded["h1"]
    /\ table["h1"].version # call["h1"].version

\* The state the replay from empty gives for version v: the latest checkpoint at
\* or before v restored into an empty state, then the entries after it up to v;
\* the entries 0..v when there is no such checkpoint.
ReplayFromEmpty(S, v) ==
    LET Ks == {p.version : p \in {q \in DOMAIN S.checkpoint_files : q.version <= v}}
    IN  IF Ks = {}
        THEN ApplyLogsUpTo(S, DefaultState, -1, 0, v)
        ELSE LET K == CHOOSE k \in Ks : \A j \in Ks : j <= k
                 r == restore_checkpoint(S, CheckPoint(K, 0, None))
             IN  IF r.err # "Ok" THEN [err |-> r.err, state |-> r.state, replayed |-> -1]
                 ELSE ApplyLogsUpTo(S, r.state, K, K + 1, v)

\* C11: whatever the handle held before, a successful load_version(v) leaves the
\* state equal to the replay from empty of the latest checkpoint at or before v
\* and the entries after it up to v (entries 0..v without one).
C11_LoadVersionFromEmpty ==
    [][\A a \in Handles :
          (Returns(a, "load_version") /\ call'[a].status = "Ok")
          => table'[a].state = ReplayFromEmpty(Store, call'[a].version).state]_vars

(* ------------------------------------------------------------------ *)
(* load_with_datetime: the binary search over the entries' timestamps   *)
(* ------------------------------------------------------------------ *)

\* SpecDatetime: tables of 1..MaxEntries log entries, modification times and
\* datetimes of 0..MaxTick ticks.
MaxEntries == 4

MaxTick == 9

\* A second has sub-second ticks that timestamp() drops.
TicksPerSecond == 2

\* DateTime::timestamp(): whole seconds
Timestamp(ticks) == ticks \div TicksPerSecond

\* get_version_timestamp: the cached or fetched modification time in seconds
get_version_timestamp(modified, version) == Timestamp(modified[version + 1])

\* Variant of the turn whose "greater" branch leaves version at the pivot.
BinarySearchTurnKeepsPivot(s, modified, target_ts) ==
    LET pivot == (s.max_version + s.min_version) \div 2
        pts == get_version_timestamp(modified, pivot)
    IN  IF pts = target_ts
        THEN [s EXCEPT !.version = pivot, !.pc = "clamp"]
        ELSE IF pts < target_ts
        THEN [s EXCEPT !.version = pivot, !.min_version = pivot + 1]
        ELSE [s EXCEPT !.max_version = pivot - 1, !.version = pivot]

\* One turn of the loop of load_with_datetime.
BinarySearchTurn(s, modified, target_ts) ==
    LET pivot == (s.max_version + s.min_version) \div 2
        pts == get_version_timestamp(modified, pivot)
    IN  IF pts = target_ts
        THEN [s EXCEPT !.version = pivot, !.pc = "clamp"]
        ELSE IF pts < target_ts
        THEN [s EXCEPT !.version = pivot, !.min_version = pivot + 1]
        ELSE [s EXCEPT !.max_version = pivot - 1, !.version = pivot - 1]

RECURSIVE SortedSeq(_)
SortedSeq(S) ==
    IF S = {} THEN <<>>
    ELSE LET x == CHOOSE y \in S : \A z \in S : y <= z IN <<x>> \o SortedSeq(S \ {x})

\* The tables: entries 0..n-1, each modified later than the one before it.
ModifiedTimes ==
    {SortedSeq(S) : S \in {T \in SUBSET (0..MaxTick) :
                              Cardinality(T) >= 1 /\ Cardinality(T) <= MaxEntries}}

\* The entries below `removed` have been deleted behind a checkpoint.
MaxRemoved == 1

\* load_with_datetime up to the loop: get_latest_version on a log without gaps
\* after the checkpoint gives the last entry.
StartSearch(modified, removed, target) ==
    [pc |-> "search", modified |-> modified, removed |-> removed, target |-> target,
     min_version |-> 0, max_version |-> Len(modified) - 1, version |-> 0,
     status |-> "running"]

\* One turn of the loop; get_version_timestamp of a pivot whose entry is gone
\* is the NotFound of head_obj, returned by `?`.
SearchTurn ==
    /\ search.pc = "search"
    /\ search.min_version <= search.max_version
    /\ IF (search.max_version + search.min_version) \div 2 < search.removed
       THEN search' = [search EXCEPT
                          !.pc = "done",
                          !.version = (search.max_version + search.min_version) \div 2,
                          !.status = "StorageError"]
       ELSE search' = BinarySearchTurn(search, search.modified, Timestamp(search.target))
    /\ UNCHANGED <<main_vars, projector, snapshot, vac, engine, query, outage, finder>>

SearchEnd ==
    /\ search.pc = "search"
    /\ search.min_version > search.max_version
    /\ search' = [search EXCEPT !.pc = "clamp"]
    /\ UNCHANGED <<main_vars, projector, snapshot, vac, engine, query, outage, finder>>

\* A load_with_datetime that passes the version found on as it is.
ClampVersionAbsent(version) == version

\* if version < 0 { version = 0; }
ClampVersion(version) == IF version < 0 THEN 0 ELSE version

\* The clamp to version 0 and the load_version that ends load_with_datetime:
\* the handle's version is the chosen one when that entry exists.
LoadChosenVersion ==
    /\ search.pc = "clamp"
    /\ LET version == ClampVersion(search.version) IN
       search' = [search EXCEPT
                     !.pc = "done",
                     !.version = version,
                     !.status = IF version \in search.removed..(Len(search.modified) - 1)
                                THEN "Ok" ELSE "InvalidVersion"]
    /\ UNCHANGED <<main_vars, projector, snapshot, vac, engine, query, outage, finder>>

InitDatetime ==
    /\ InitWith({0}, [a \in Handles |-> 0])
    /\ search \in {StartSearch(m, removed, t) :
                      m \in ModifiedTimes, removed \in 0..MaxRemoved, t \in 0..MaxTick}
    /\ search.removed < Len(search.modified)
    /\ projector = NoProjector
    /\ snapshot = NoSnapshot
    /\ vac = NoVacuum
    /\ engine = NoEngine
    /\ query = NoQuery
    /\ outage = NoOutage
    /\ finder = NoFinder

NextDatetime ==
    \/ SearchTurn
    \/ SearchEnd
    \/ LoadChosenVersion

SpecDatetime == InitDatetime /\ [][NextDatetime]_vars

\* The timestamp of entry v as the code reads it, in ticks.
EntryTime(v) == get_version_timestamp(search.modified, v) * TicksPerSecond

TimestampsIncrease ==
    \A v \in 0..(Len(search.modified) - 2) :
        get_version_timestamp(search.modified, v)
            < get_version_timestamp(search.modified, v + 1)

\* The version chosen is the one whose timestamp is the latest at or before t.
ChosenBracketsTarget ==
    /\ search.status = "Ok"
    /\ EntryTime(search.version) <= search.target
    /\ \/ search.version = Len(search.modified) - 1
       \/ search.target < EntryTime(search.version + 1)

EarlyDatetime ==
    \A v \in search.removed..(Len(search.modified) - 1) :
        Timestamp(search.target) < get_version_timestamp(search.modified, v)

\* C31 as stated: when the datetime is earlier than the modification time of
\* every log entry, the binary search of load_with_datetime ends with a
\* negative version, the version is clamped to 0, and the call loads version 0
\* and succeeds.
C31_EarlyDatetimeLoadsZero ==
    /\ search.pc = "clamp" /\ EarlyDatetime => search.version = -1
    /\ search.pc = "done" /\ EarlyDatetime
       => search.status = "Ok" /\ search.version = 0

\* C31 amended: the same on a table whose log entries 0..max all exist.
C31_EarlyDatetimeLoadsZeroAmended ==
    search.removed = 0 => C31_EarlyDatetimeLoadsZero

\* A search over three entries, all modified after the datetime, has ended.
C31_Witness ==
    /\ search.pc = "done"
    /\ search.removed = 0
    /\ Len(search.modified) = 3
    /\ EarlyDatetime
    /\ search.status = "Ok"
    /\ search.version = 0

(* ------------------------------------------------------------------ *)
(* The state projector on sequences of add and remove actions          *)
(* ------------------------------------------------------------------ *)

\* SpecProjector: sequences of up to MaxActions actions over Paths.
MaxActions == 5

AddRemoveActions == {Add(p) : p \in Paths} \cup {Remove(p) : p \in Paths}

\* One action replayed into the state.
Replay ==
    /\ Len(projector.history) < MaxActions
    /\ \E action \in AddRemoveActions :
          projector' = [history |-> Append(projector.history, action),
                        state |-> ProcessAction(projector.state, action)]
    /\ UNCHANGED <<main_vars, search, snapshot, vac, engine, query, outage, finder>>

InitProjector ==
    /\ InitWith({0}, [a \in Handles |-> 0])
    /\ search = NoSearch
    /\ projector = NoProjector
    /\ snapshot = NoSnapshot
    /\ vac = NoVacuum
    /\ engine = NoEngine
    /\ query = NoQuery
    /\ outage = NoOutage
    /\ finder = NoFinder

NextProjector == Replay

SpecProjector == InitProjector /\ [][NextProjector]_vars

\* The position of the last remove naming p in a sequence of actions, 0 if none.
LastRemove(h, p) ==
    LET R == {i \in 1..Len(h) : h[i].tag = "remove" /\ h[i].path = p}
    IN  IF R = {} THEN 0 ELSE CHOOSE i \in R : \A j \in R : j <= i

IsRemove(action) == action.tag = "remove"

\* C13: after any sequence of adds and removes, files holds for each path p
\* exactly the adds of p replayed after the last remove of p, in replay order (so
\* p is absent iff the last action naming p is a remove or p was never added, and
\* a remove drops every entry of its path), and tombstones is every remove that
\* was replayed, in replay order.
C13_AddRemoveLaw ==
    LET h == projector.history
        live(i) == h[i].tag = "add" /\ i > LastRemove(h, h[i].path)
        idx == {i \in 1..Len(h) : live(i)}
    IN  /\ projector.state.files = [k \in 1..Cardinality(idx) |->
              h[CHOOSE i \in idx : Cardinality({j \in idx : j <= i}) = k]]
        /\ \A p \in Paths :
              (\A k \in 1..Len(projector.state.files) : projector.state.files[k].path # p)
              <=> \/ \A i \in 1..Len(h) : h[i].path # p
                  \/ \E i \in 1..Len(h) :
                        /\ h[i] = Remove(p)
                        /\ \A j \in (i + 1)..Len(h) : h[j].path # p
        /\ projector.state.tombstones = SelectSeq(h, IsRemove)

\* A path was added twice, removed, and added again after another path's remove.
C13_Witness ==
    /\ projector.history = <<Add("a"), Add("a"), Remove("a"), Remove("b"), Add("a")>>
    /\ projector.state.files = <<Add("a")>>
    /\ projector.state.tombstones = <<Remove("a"), Remove("b")>>


(* ------------------------------------------------------------------ *)
(* load on one action sequence, cut into entries and condensed          *)
(* ------------------------------------------------------------------ *)

\* SpecSnapshot: action sequences of up to MaxSnapshotActions actions.
MaxSnapshotActions == 3

SnapshotActions ==
    {Add("a"), Remove("a"), Add("b"), Protocol(1, 2), MetaData("m", <<>>),
     Txn("app", 1), Txn("app", 2)}

\* The sequences over a set of length 0..n.
SeqsUpTo(set, n) == UNION { [1..k -> set] : k \in 0..n }

\* The k-th smallest element of a set of numbers.
Nth(set, k) == CHOOSE b \in set : Cardinality({x \in set : x < b}) = k - 1

\* The positions after which one entry of the log ends, the last one included.
Ends(actions, cuts) == cuts \cup {Len(actions)}

\* The actions of entry `version` when `actions` is cut after the positions in `cuts`.
EntryActions(actions, cuts, version) ==
    LET first == IF version = 0 THEN 1 ELSE Nth(Ends(actions, cuts), version) + 1
        last == Nth(Ends(actions, cuts), version + 1)
    IN  SubSeq(actions, first, last)

\* The actions of entries 0..version.
ActionsUpTo(actions, cuts, version) ==
    IF version < 0 THEN <<>>
    ELSE SubSeq(actions, 1, Nth(Ends(actions, cuts), version + 1))

\* process_action folded over a sequence of actions.
RECURSIVE ReplayActions(_, _)
ReplayActions(state, actions) ==
    IF actions = <<>> THEN state
    ELSE ReplayActions(ProcessAction(state, Head(actions)), Tail(actions))

\* The store that holds `actions` as entries 0..n and, when checkpoint >= 0, a
\* single-part checkpoint of the cumulative state of entries 0..checkpoint
\* with _last_checkpoint pointing at it.
SnapshotStore(actions, cuts, checkpoint, removes_first) ==
    LET n == Cardinality(Ends(actions, cuts))
        rows == CheckpointRows(
                   ReplayActions(DefaultState, ActionsUpTo(actions, cuts, checkpoint)),
                   removes_first)
    IN  [log |-> [v \in 0..(n - 1) |->
                     Some(LogEntryFromActions(EntryActions(actions, cuts, v)))],
         last_checkpoint |-> IF checkpoint < 0 THEN None
                             ELSE Some(CheckPoint(checkpoint, Len(rows), None)),
         checkpoint_files |-> IF checkpoint < 0 THEN <<>>
                              ELSE [x \in {CheckpointPath(checkpoint, 0, 0)} |-> rows],
         faults |-> {}]

\* The fields of DeltaTableState that two replays are compared on.
Compared(state) ==
    [files |-> state.files,
     tombstones |-> state.tombstones,
     min_reader_version |-> state.min_reader_version,
     min_writer_version |-> state.min_writer_version,
     current_metadata |-> state.current_metadata,
     app_transaction_version |-> state.app_transaction_version]

\* DeltaTable::load on a fresh handle over the store built from the inputs.
LoadSnapshot ==
    /\ snapshot.pc = "start"
    /\ LET r == load(SnapshotStore(snapshot.actions, snapshot.cuts,
                                   snapshot.checkpoint, snapshot.removes_first),
                     NewTable)
       IN  snapshot' = [snapshot EXCEPT !.pc = "done", !.err = r.err, !.table = r.t]
    /\ UNCHANGED <<main_vars, search, projector, vac, engine, query, outage, finder>>

InitSnapshot ==
    /\ InitWith({0}, [a \in Handles |-> 0])
    /\ search = NoSearch
    /\ projector = NoProjector
    /\ vac = NoVacuum
    /\ engine = NoEngine
    /\ query = NoQuery
    /\ outage = NoOutage
    /\ finder = NoFinder
    /\ \E actions \in SeqsUpTo(SnapshotActions, MaxSnapshotActions) \ {<<>>} :
       \E cuts \in SUBSET (1..(Len(actions) - 1)) :
       \E checkpoint \in -1..Cardinality(cuts) :
       \E removes_first \in BOOLEAN :
          snapshot = [pc |-> "start", actions |-> actions, cuts |-> cuts,
                      checkpoint |-> checkpoint, removes_first |-> removes_first,
                      err |-> "Ok", table |-> NewTable]

NextSnapshot == LoadSnapshot

SpecSnapshot == InitSnapshot /\ [][NextSnapshot]_vars

\* C14: for every action sequence, every way of cutting it into log entries and
\* every checkpoint of the cumulative state of entries 0..K, a successful load()
\* ends in the files, tombstones, protocol versions, metadata and txn map that
\* replaying the whole sequence from the empty state gives.
C14_ReplayDeterminism ==
    (snapshot.pc = "done" /\ snapshot.err = "Ok")
    => Compared(snapshot.table.state)
       = Compared(ReplayActions(DefaultState, snapshot.actions))

\* The part of C14 about cutting alone: without a checkpoint the state does not
\* depend on the cuts.
ChunkingAlone ==
    (snapshot.pc = "done" /\ snapshot.err = "Ok" /\ snapshot.checkpoint < 0)
    => Compared(snapshot.table.state)
       = Compared(ReplayActions(DefaultState, snapshot.actions))

\* The part of C14 about checkpoints whose tombstone rows precede the file rows.
TombstonesFirst ==
    (snapshot.pc = "done" /\ snapshot.err = "Ok" /\ snapshot.removes_first)
    => Compared(snapshot.table.state)
       = Compared(ReplayActions(DefaultState, snapshot.actions))


(* ------------------------------------------------------------------ *)
(* commit_with against writers that keep taking the next version        *)
(* ------------------------------------------------------------------ *)

\* SpecRetry: log versions 0..MaxRetryVersion can be stored.
MaxRetryVersion == 3

\* The values of max_retry_commit_attempts of the transaction: the two smallest
\* and the largest u32.
RetryBudgets == {0, 1, U32_MAX}

InitRetry ==
    /\ InitWith(0..MaxRetryVersion, [a \in Handles |-> IF a = "h1" THEN 1 ELSE 0])
    /\ search = NoSearch
    /\ projector = NoProjector
    /\ snapshot = NoSnapshot
    /\ vac = NoVacuum
    /\ engine = NoEngine
    /\ query = NoQuery
    /\ outage = NoOutage
    /\ finder = NoFinder

\* One commit_with or commit_version of h1 while other writers commit.
NextRetry ==
    \/ CommitWithOptions("h1", RetryBudgets)
    \/ CommitVersion("h1")
    \/ NextAttemptVersion("h1")
    \/ TryCommitLoop("h1")
    \/ TryCommit("h1")
    \/ UpdateAfterCommit("h1")
    \/ ExternalCommit

SpecRetry == InitRetry /\ [][NextRetry]_vars

\* C15: a commit_with that gave up on a taken version made exactly
\* max_retry_commit_attempts + 2 failed renames, and one that has made that many
\* failed renames is not running any more (stated for the values of
\* max_retry_commit_attempts below u32::MAX).
C15_RetryBound ==
    \A a \in Handles :
       (call[a].op = "commit_with" /\ call[a].max_retry_commit_attempts # U32_MAX)
       => /\ call[a].status = "VersionAlreadyExists"
             => call[a].rename_attempts = call[a].max_retry_commit_attempts + 2
          /\ pc[a] \in {"next_attempt_version", "try_commit_loop"}
             => call[a].rename_attempts < call[a].max_retry_commit_attempts + 2

\* What try_commit_loop does when max_retry_commit_attempts is less than u32::MAX:
\* it gives up at failed rename max_retry_commit_attempts + 3.
GivesUpAtThirdBeyondBudget ==
    \A a \in Handles :
       (call[a].op = "commit_with" /\ call[a].status = "VersionAlreadyExists"
           /\ call[a].max_retry_commit_attempts # U32_MAX)
       => call[a].rename_attempts = call[a].max_retry_commit_attempts + 3

\* What try_commit_loop does for the largest max_retry_commit_attempts: the call
\* ends at the first failed rename with a panic or at the second one with an error.
LargestBudget ==
    \A a \in Handles :
       (call[a].op = "commit_with" /\ call[a].max_retry_commit_attempts = U32_MAX)
       => /\ call[a].status = "Panic" => call[a].rename_attempts = 1
          /\ call[a].status = "VersionAlreadyExists" => call[a].rename_attempts = 2
          /\ call[a].rename_attempts <= 2

\* C39: for every max_retry_commit_attempts, u32::MAX included, the sum
\* max_retry_commit_attempts + 1 of the loop's guard is computed without
\* overflow: no call ends in the panic of an overflow check, and no call gives
\* up because the sum wrapped to 0 (with u32::MAX the true sum is above every
\* attempt_number, so such a call never gives up on a taken version).
C39_RetryBoundNoOverflow ==
    \A a \in Handles :
       call[a].op = "commit_with"
       => /\ call[a].status # "Panic"
          /\ call[a].max_retry_commit_attempts = U32_MAX
             => call[a].status # "VersionAlreadyExists"

\* The turn of try_commit_loop in which handle a gives up on a taken version.
GivesUp(a) ==
    /\ call[a].op = "commit_with"
    /\ pc[a] = "try_commit_loop" /\ pc'[a] = "idle"
    /\ log[call[a].version] # None
    /\ call'[a].status # "Panic"

\* The single try_commit of commit_version finds the version taken.
Conflict(a) ==
    /\ call[a].op = "commit_version"
    /\ pc[a] = "try_commit" /\ pc'[a] = "idle"
    /\ log[call[a].version] # None

\* The update of next_attempt_version fails.
AttemptFails(a) ==
    /\ call[a].op = "commit_with"
    /\ pc[a] = "next_attempt_version" /\ pc'[a] = "idle"

\* C16, as stated: a commit_with that gives up because its retries are exhausted
\* returns TransactionCommitAttempt, and a commit_version that finds its version
\* taken returns VersionAlreadyExists.
C16_ExhaustionError ==
    [][\A a \in Handles :
          /\ GivesUp(a) => call'[a].status = "TransactionCommitAttempt"
          /\ Conflict(a) => call'[a].status = "VersionAlreadyExists"]_vars

\* C16, amended: a commit_with that gives up because its retries are exhausted
\* returns VersionAlreadyExists, as does a commit_version that finds its version
\* taken; TransactionCommitAttempt is what a commit_with returns when the update
\* of next_attempt_version fails.
C16_ExhaustionErrorAmended ==
    [][\A a \in Handles :
          /\ GivesUp(a) => call'[a].status = "VersionAlreadyExists"
          /\ Conflict(a) => call'[a].status = "VersionAlreadyExists"
          /\ AttemptFails(a) => call'[a].status = "TransactionCommitAttempt"]_vars

\* A commit_with with no retries allowed gave up after losing three renames.
C16_Witness ==
    \E a \in Handles :
       /\ pc[a] = "idle"
       /\ call[a].op = "commit_with"
       /\ call[a].max_retry_commit_attempts = 0
       /\ call[a].status = "VersionAlreadyExists"
       /\ call[a].rename_attempts = 3
       /\ log[call[a].version] # None


(* ------------------------------------------------------------------ *)
(* Writers that only call commit_with, scheduled fairly                 *)
(* ------------------------------------------------------------------ *)

\* SpecLive: each handle starts MaxLiveCalls calls of commit_with.
MaxLiveCalls == 1

\* The commits that compete with one call: those of the other handles.
CompetingCommits == (Cardinality(Handles) - 1) * MaxLiveCalls

\* The versions the commits of all handles can reach from a table of one entry.
LiveVersions == 0..(Cardinality(Handles) * MaxLiveCalls + 1)

\* Either nothing is stored and the handles are new, or the table was created
\* with one entry and each handle has load()ed it.
InitLive ==
    /\ outage = NoOutage
    /\ finder = NoFinder
    /\ last_checkpoint = None
    /\ checkpoint_files = <<>>
    /\ \E created \in BOOLEAN :
          /\ log = [v \in LiveVersions |->
                       IF created /\ v = 0 THEN Some(LogEntryFromActions(<<Add("b")>>))
                       ELSE None]
          /\ table = [a \in Handles |->
                         IF created THEN load(Store, NewTable).t ELSE NewTable]
          /\ loaded = [a \in Handles |-> created]
    /\ tmp_files = <<>>
    /\ pc = [a \in Handles |-> "idle"]
    /\ call = [a \in Handles |-> NoCall(a)]
    /\ calls_left = [a \in Handles |-> MaxLiveCalls]
    /\ renamed = [v \in LiveVersions |-> 0]
    /\ returned = [v \in LiveVersions |-> 0]
    /\ logs_deleted = FALSE
    /\ search = NoSearch
    /\ projector = NoProjector
    /\ snapshot = NoSnapshot
    /\ vac = NoVacuum
    /\ engine = NoEngine
    /\ query = NoQuery

\* The steps of handle a inside a commit_with it has started.
CommitProgress(a) ==
    \/ NextAttemptVersion(a)
    \/ TryCommitLoop(a)
    \/ UpdateAfterCommit(a)

NextLive ==
    \/ \E a \in Handles : CommitWithOptions(a, {CompetingCommits})
    \/ \E a \in Handles : CommitProgress(a)

\* Every started call keeps being scheduled.
FairLive == \A a \in Handles : WF_vars(CommitProgress(a))

SpecLive == InitLive /\ [][NextLive]_vars /\ FairLive

\* handle a lost a race and has chosen the version of its next attempt
NewAttempt(a) ==
    /\ pc[a] = "next_attempt_version" /\ pc'[a] = "try_commit_loop"
    /\ call[a].rename_attempts > 0

\* C17: every commit_with a handle starts eventually returns success, and the
\* attempt that follows a lost race is at a strictly higher version.
C17_CommitLiveness ==
    /\ \A a \in Handles :
          (call[a].op = "commit_with" /\ call[a].status = "running")
          ~> (pc[a] = "idle" /\ call[a].status = "Ok")
    /\ [][\A a \in Handles :
             NewAttempt(a) => call'[a].version > call[a].version]_vars

\* A commit_with returned success after losing a race and retrying.
C17_Witness ==
    \E a \in Handles :
       /\ pc[a] = "idle"
       /\ call[a].op = "commit_with"
       /\ call[a].status = "Ok"
       /\ call[a].rename_attempts > 1
       /\ log[call[a].version] = Some(LogEntryFromActions(call[a].actions))


(* ------------------------------------------------------------------ *)
(* vacuum                                                               *)
(* ------------------------------------------------------------------ *)

\* SpecVacuum: table states with up to MaxTombstones tombstones.
MaxTombstones == 2

\* get_stale_files: the least retention period accepted, in hours
MinRetentionHours == 168

\* Duration::from_secs(3600 * retention_hours)
SecondsPerHour == 3600

\* Duration::as_millis
MillisPerSecond == 1000

\* A remove action with the time of the removal in milliseconds.
RemoveAt(p, ts) == [tag |-> "remove", path |-> p, deletionTimestamp |-> ts]

\* Paths are sequences of pieces, so that str::starts_with is the prefix test.
starts_with(s, prefix) ==
    Len(prefix) <= Len(s) /\ SubSeq(s, 1, Len(prefix)) = prefix

\* self.table_path
TablePath == <<"table">>

\* storage.join_path(path, name)
join_path(path, name) == path \o <<"/">> \o name

\* Vec::contains
Contains(seq, x) == \E i \in 1..Len(seq) : seq[i] = x

\* DeltaTable::get_file_paths
get_file_paths(state) ==
    [i \in 1..Len(state.files) |-> join_path(TablePath, state.files[i].path)]

\* Variant of get_stale_files that accepts every retention period.
get_stale_files_without_guard(state, now, retention_hours) ==
    LET delete_before_timestamp ==
            now - SecondsPerHour * retention_hours * MillisPerSecond
        Stale(tombstone) == tombstone.deletionTimestamp < delete_before_timestamp
        stale == SelectSeq(state.tombstones, Stale)
    IN  IF delete_before_timestamp < 0
        THEN [err |-> "InvalidVacuumRetentionPeriod", at |-> "before_epoch",
              paths |-> <<>>]
        ELSE [err |-> "Ok", at |-> "none",
              paths |-> [i \in 1..Len(stale) |-> join_path(TablePath, stale[i].path)]]

\* Variant of get_stale_files that also takes the tombstones removed exactly at
\* the cutoff.
get_stale_files_at_cutoff(state, now, retention_hours) ==
    LET delete_before_timestamp ==
            now - SecondsPerHour * retention_hours * MillisPerSecond
        Stale(tombstone) == tombstone.deletionTimestamp <= delete_before_timestamp
        stale == SelectSeq(state.tombstones, Stale)
    IN  IF retention_hours < MinRetentionHours
        THEN [err |-> "InvalidVacuumRetentionPeriod", at |-> "retention_guard",
              paths |-> <<>>]
        ELSE IF delete_before_timestamp < 0
        THEN [err |-> "InvalidVacuumRetentionPeriod", at |-> "before_epoch",
              paths |-> <<>>]
        ELSE [err |-> "Ok", at |-> "none",
              paths |-> [i \in 1..Len(stale) |-> join_path(TablePath, stale[i].path)]]

\* DeltaTable::get_stale_files, with `now` the milliseconds of SystemTime::now()
\* since UNIX_EPOCH; `at` names the return that gave the error.
get_stale_files(state, now, retention_hours) ==
    LET delete_before_timestamp ==
            now - SecondsPerHour * retention_hours * MillisPerSecond
        Stale(tombstone) == tombstone.deletionTimestamp < delete_before_timestamp
        stale == SelectSeq(state.tombstones, Stale)
    IN  IF retention_hours < MinRetentionHours
        THEN [err |-> "InvalidVacuumRetentionPeriod", at |-> "retention_guard",
              paths |-> <<>>]
        ELSE IF delete_before_timestamp < 0
        THEN [err |-> "InvalidVacuumRetentionPeriod", at |-> "before_epoch",
              paths |-> <<>>]
        ELSE [err |-> "Ok", at |-> "none",
              paths |-> [i \in 1..Len(stale) |-> join_path(TablePath, stale[i].path)]]

\* Variant of is_hidden_directory that hides the paths under "." only.
is_hidden_directory_dot_only(state, path_name) ==
    [err |-> "Ok",
     hidden |-> starts_with(path_name, join_path(TablePath, <<".">>))]

\* DeltaTable::is_hidden_directory: && and || evaluate their right operand only
\* when the left one does not decide, so current_metadata is looked at only for
\* a path under "." or "_" that is under neither _delta_index nor _change_data.
is_hidden_directory(state, path_name) ==
    LET dotted == \/ starts_with(path_name, join_path(TablePath, <<".">>))
                  \/ starts_with(path_name, join_path(TablePath, <<"_">>))
        kept == \/ starts_with(path_name, join_path(TablePath, <<"_", "delta_index">>))
                \/ starts_with(path_name, join_path(TablePath, <<"_", "change_data">>))
    IN  IF ~dotted \/ kept THEN [err |-> "Ok", hidden |-> FALSE]
        ELSE IF state.current_metadata = None
        THEN [err |-> "NoMetadata", hidden |-> FALSE]
        ELSE LET cols == state.current_metadata[1].partition_columns IN
             [err |-> "Ok",
              hidden |-> ~ \E i \in 1..Len(cols) :
                             starts_with(path_name, join_path(TablePath, cols[i]))]

\* The loop of vacuum over the listed objects from the i-th on.
RECURSIVE VacuumScan(_, _, _, _, _)
VacuumScan(state, all_files, tombstones_path, i, tombstones) ==
    IF i > Len(all_files) THEN [err |-> "Ok", tombstones |-> tombstones]
    ELSE LET path == all_files[i]
             is_not_valid_file == ~Contains(get_file_paths(state), path)
             is_valid_tombstone == Contains(tombstones_path, path)
             hidden == is_hidden_directory(state, path)
         IN  IF hidden.err # "Ok" THEN [err |-> hidden.err, tombstones |-> tombstones]
             ELSE VacuumScan(state, all_files, tombstones_path, i + 1,
                     IF is_not_valid_file /\ is_valid_tombstone /\ ~hidden.hidden
                     THEN Append(tombstones, path) ELSE tombstones)

\* Variant of the loop of deletes in which NotFound ends the call like any other
\* storage error.
RECURSIVE VacuumDeletePropagatesNotFound(_, _, _, _, _)
VacuumDeletePropagatesNotFound(tombstones, delete_obj, i, calls, deleted) ==
    IF i > Len(tombstones) THEN [err |-> "Ok", calls |-> calls, deleted |-> deleted]
    ELSE LET r == delete_obj[tombstones[i]] IN
         IF r = "Ok"
         THEN VacuumDeletePropagatesNotFound(tombstones, delete_obj, i + 1,
                 Append(calls, tombstones[i]), deleted \cup {tombstones[i]})
         ELSE [err |-> "StorageError", calls |-> Append(calls, tombstones[i]),
               deleted |-> deleted]

\* The loop of deletes of vacuum from the i-th candidate on; delete_obj gives the
\* result of storage.delete_obj for each path.
RECURSIVE VacuumDelete(_, _, _, _, _)
VacuumDelete(tombstones, delete_obj, i, calls, deleted) ==
    IF i > Len(tombstones) THEN [err |-> "Ok", calls |-> calls, deleted |-> deleted]
    ELSE LET r == delete_obj[tombstones[i]] IN
         IF r = "Ok"
         THEN VacuumDelete(tombstones, delete_obj, i + 1,
                 Append(calls, tombstones[i]), deleted \cup {tombstones[i]})
         ELSE IF r = "NotFound"
         THEN VacuumDelete(tombstones, delete_obj, i + 1,
                 Append(calls, tombstones[i]), deleted)
         ELSE [err |-> "StorageError", calls |-> Append(calls, tombstones[i]),
               deleted |-> deleted]

\* The result of a vacuum that returns `err` before any delete.
VacuumEnds(err, at, listed, candidates) ==
    [err |-> err, at |-> at, listed |-> listed, returned |-> candidates,
     delete_calls |-> <<>>, deleted |-> {}]

\* DeltaTable::vacuum: all_files is what storage.list_objs yields, delete_obj the
\* result of storage.delete_obj for each path.
vacuum(state, all_files, now, retention_hours, dry_run, delete_obj) ==
    LET stale == get_stale_files(state, now, retention_hours) IN
    IF stale.err # "Ok" THEN VacuumEnds(stale.err, stale.at, FALSE, <<>>)
    ELSE LET scan == VacuumScan(state, all_files, stale.paths, 1, <<>>) IN
         IF scan.err # "Ok" THEN VacuumEnds(scan.err, "is_hidden_directory", TRUE, <<>>)
         ELSE IF dry_run THEN VacuumEnds("Ok", "none", TRUE, scan.tombstones)
         ELSE LET d == VacuumDelete(scan.tombstones, delete_obj, 1, <<>>, {}) IN
              [err |-> d.err, at |-> IF d.err = "Ok" THEN "none" ELSE "delete_obj",
               listed |-> TRUE,
               returned |-> IF d.err = "Ok" THEN scan.tombstones ELSE <<>>,
               delete_calls |-> d.calls, deleted |-> d.deleted]


\* The objects under the table path: a data file, a file under a "." directory,
\* an index file, a file of the partition directory "_p=1" and a log entry.
DataFile == join_path(TablePath, <<"a">>)

DotFile == join_path(TablePath, <<".", "h">>)

IndexFile == join_path(TablePath, <<"_", "delta_index">>)

PartitionFile == join_path(TablePath, <<"_", "p", "=1">>)

LogFile == join_path(TablePath, <<"_", "delta_log", "/", "0.json">>)

Objects == {DataFile, DotFile, IndexFile, PartitionFile, LogFile}

\* The table-relative path of an object.
Relative(path) == SubSeq(path, Len(TablePath) + 2, Len(path))

\* The clock of the call: two milliseconds past the least retention period, so
\* that the cutoff of that period is at millisecond 2.
Now == MinRetentionHours * SecondsPerHour * MillisPerSecond + 2

RetentionHours == {MinRetentionHours - 1, MinRetentionHours, MinRetentionHours + 1}

\* Removal times just before and at the cutoff of the least retention period.
DeletionTimestamps == {1, 2}

\* The live files of the table states.
LiveFiles == { <<>>, <<Add(Relative(DataFile))>>, <<Add(Relative(PartitionFile))>> }

Tombstones ==
    SeqsUpTo({RemoveAt(Relative(o), ts) : o \in Objects, ts \in DeletionTimestamps},
             MaxTombstones)

\* No metaData action was replayed, or one without partition columns, or one
\* with the partition column "_p".
Metadata ==
    {None, Some([id |-> "m", partition_columns |-> <<>>]),
     Some([id |-> "m", partition_columns |-> << <<"_", "p">> >>])}

\* The paths a vacuum with these inputs goes on to delete.
ToDelete(v) ==
    LET r == vacuum(v.state, v.all_files, v.now, v.retention_hours, TRUE, <<>>) IN
    IF v.dry_run THEN {} ELSE {r.returned[i] : i \in 1..Len(r.returned)}

\* One call of vacuum; the store answers each delete with Ok, NotFound (the
\* object is gone already) or another error.
Vacuum ==
    /\ vac.pc = "start"
    /\ \E delete_obj \in [ToDelete(vac) -> {"Ok", "NotFound", "Error"}] :
          vac' = [vac EXCEPT
                    !.pc = "done",
                    !.delete_obj = delete_obj,
                    !.result = vacuum(vac.state, vac.all_files, vac.now,
                                      vac.retention_hours, vac.dry_run, delete_obj)]
    /\ UNCHANGED <<main_vars, search, projector, snapshot, engine, query, outage, finder>>

InitVacuum ==
    /\ InitWith({0}, [a \in Handles |-> 0])
    /\ search = NoSearch
    /\ projector = NoProjector
    /\ snapshot = NoSnapshot
    /\ engine = NoEngine
    /\ query = NoQuery
    /\ outage = NoOutage
    /\ finder = NoFinder
    /\ \E listed \in SUBSET Objects, files \in LiveFiles, tombstones \in Tombstones,
          metadata \in Metadata, retention_hours \in RetentionHours,
          dry_run \in BOOLEAN :
          vac = [pc |-> "start",
                 state |-> [DefaultState EXCEPT !.files = files,
                                                !.tombstones = tombstones,
                                                !.current_metadata = metadata],
                 all_files |-> SetToSeq(listed),
                 now |-> Now,
                 retention_hours |-> retention_hours,
                 dry_run |-> dry_run,
                 delete_obj |-> <<>>,
                 result |-> VacuumEnds("none", "none", FALSE, <<>>)]

NextVacuum == Vacuum

SpecVacuum == InitVacuum /\ [][NextVacuum]_vars

\* The objects left in the store by the call.
ObjectsAfter == {vac.all_files[i] : i \in 1..Len(vac.all_files)} \ vac.result.deleted

\* C18: a vacuum with retention_hours < 168 returns InvalidVacuumRetentionPeriod
\* from the retention guard whatever dry_run is, without having listed or deleted
\* anything; with retention_hours >= 168 no call returns from that guard.
C18_RetentionGuard ==
    vac.pc = "done"
    => /\ vac.retention_hours < 168
          => /\ vac.result.err = "InvalidVacuumRetentionPeriod"
             /\ vac.result.at = "retention_guard"
             /\ ~vac.result.listed
             /\ vac.result.delete_calls = <<>>
             /\ ObjectsAfter = {vac.all_files[i] : i \in 1..Len(vac.all_files)}
       /\ vac.retention_hours >= 168 => vac.result.at # "retention_guard"

\* A vacuum that is not a dry run was refused for 167 hours although an object
\* with an expired tombstone was there to delete.
C18_Witness ==
    /\ vac.pc = "done"
    /\ vac.retention_hours = 167
    /\ ~vac.dry_run
    /\ vac.result.err = "InvalidVacuumRetentionPeriod"
    /\ vac.all_files = <<DataFile>>
    /\ vac.state.tombstones = <<RemoveAt(Relative(DataFile), 1)>>
    /\ vac.state.files = <<>>


\* The elements of a sequence.
Range(seq) == {seq[i] : i \in 1..Len(seq)}

\* The same call as a dry run, and as a run whose deletes all succeed.
AsDryRun ==
    vacuum(vac.state, vac.all_files, vac.now, vac.retention_hours, TRUE, <<>>)

AsRun ==
    vacuum(vac.state, vac.all_files, vac.now, vac.retention_hours, FALSE,
           [p \in Range(AsDryRun.returned) |-> "Ok"])

\* The position of the first candidate whose delete gives an error other than
\* NotFound, 0 when there is none.
FirstError(candidates) ==
    LET failing == {i \in 1..Len(candidates) : vac.delete_obj[candidates[i]] = "Error"}
    IN  IF failing = {} THEN 0 ELSE CHOOSE i \in failing : \A j \in failing : i <= j

\* C19: a dry run deletes nothing and calls no delete, and the list it returns
\* is the list of paths the same call deletes when it is not a dry run; a call
\* that is not a dry run calls delete on the candidates in order, goes on after
\* Ok and NotFound, and returns the storage error of the first other answer
\* without going further.
C19_DryRun ==
    vac.pc = "done"
    => /\ vac.dry_run
          => /\ vac.result.deleted = {}
             /\ vac.result.delete_calls = <<>>
             /\ ObjectsAfter = Range(vac.all_files)
             /\ vac.result.err = AsRun.err
             /\ vac.result.err = "Ok" => vac.result.returned = AsRun.delete_calls
       /\ (~vac.dry_run /\ AsDryRun.err = "Ok")
          => LET candidates == AsDryRun.returned
                 stop == FirstError(candidates)
             IN  IF stop = 0
                 THEN /\ vac.result.err = "Ok"
                      /\ vac.result.returned = candidates
                      /\ vac.result.delete_calls = candidates
                      /\ vac.result.deleted =
                            {q \in Range(candidates) : vac.delete_obj[q] = "Ok"}
                 ELSE /\ vac.result.err = "StorageError"
                      /\ vac.result.delete_calls = SubSeq(candidates, 1, stop)
                      /\ vac.result.deleted =
                            {q \in Range(SubSeq(candidates, 1, stop)) :
                                vac.delete_obj[q] = "Ok"}

\* A vacuum that is not a dry run went past a candidate that was gone already
\* and deleted the next one.
C19_Witness ==
    /\ vac.pc = "done"
    /\ ~vac.dry_run
    /\ vac.result.err = "Ok"
    /\ Len(vac.result.delete_calls) = 2
    /\ vac.delete_obj[vac.result.delete_calls[1]] = "NotFound"
    /\ vac.result.deleted = {vac.result.delete_calls[2]}

\* The cutoff of the call: now_ms - retention_hours * 3_600_000.
Cutoff == vac.now - vac.retention_hours * 3600000

\* The path is the full path of an entry of the live files.
IsLive(path) ==
    \E i \in 1..Len(vac.state.files) :
       path = join_path(TablePath, vac.state.files[i].path)

\* The path is the full path of a tombstone removed before the cutoff.
IsStale(path) ==
    \E i \in 1..Len(vac.state.tombstones) :
       /\ path = join_path(TablePath, vac.state.tombstones[i].path)
       /\ vac.state.tombstones[i].deletionTimestamp < Cutoff

\* The partition columns of the table, none when it has no metadata.
PartitionColumns ==
    IF vac.state.current_metadata = None THEN {}
    ELSE Range(vac.state.current_metadata[1].partition_columns)

\* The hidden directory rule: under "." or "_" at the table root, except under
\* _delta_index, _change_data or a partition column.
IsHidden(path) ==
    /\ Relative(path)[1] \in {".", "_"}
    /\ ~starts_with(Relative(path), <<"_", "delta_index">>)
    /\ ~starts_with(Relative(path), <<"_", "change_data">>)
    /\ ~ \E col \in PartitionColumns : starts_with(Relative(path), col)

\* The paths the call treats as delete candidates: those it returns, or those
\* it called delete on when a delete failed.
CandidatesOf(result) ==
    IF result.err = "Ok" THEN Range(result.returned) ELSE Range(result.delete_calls)

\* No call deletes a live file, a path without an expired tombstone or a hidden
\* path, or returns one as a candidate.
OnlyStaleDeleted ==
    \A path \in vac.result.deleted \cup CandidatesOf(vac.result) :
       /\ path \in Range(vac.all_files)
       /\ ~IsLive(path)
       /\ IsStale(path)
       /\ ~IsHidden(path)

\* C20, as stated: in every vacuum that passes the retention guard and whose
\* deletes do not fail, a listed path is a delete candidate exactly if it is
\* not a live file, is the path of a tombstone removed before the cutoff and
\* is not hidden; and no vacuum deletes anything else.
C20_VacuumSafety ==
    vac.pc = "done"
    => /\ (vac.retention_hours >= 168 /\ vac.result.at # "delete_obj")
          => \A path \in Range(vac.all_files) :
                path \in CandidatesOf(vac.result)
                <=> (~IsLive(path) /\ IsStale(path) /\ ~IsHidden(path))
       /\ OnlyStaleDeleted

\* C20, amended: the same for the vacuums that return Ok; a vacuum fails with
\* NoMetadata, without a candidate or a delete, exactly if the table state has
\* no metadata and a listed path is under "." or "_" and under neither
\* _delta_index nor _change_data.
C20_VacuumSafetyAmended ==
    vac.pc = "done"
    => /\ vac.result.err = "Ok"
          => \A path \in Range(vac.all_files) :
                path \in CandidatesOf(vac.result)
                <=> (~IsLive(path) /\ IsStale(path) /\ ~IsHidden(path))
       /\ OnlyStaleDeleted
       /\ vac.result.err = "NoMetadata"
          <=> /\ vac.retention_hours >= 168 /\ Cutoff >= 0
              /\ vac.state.current_metadata = None
              /\ \E path \in Range(vac.all_files) : IsHidden(path)
       /\ vac.result.err = "NoMetadata"
          => vac.result.deleted = {} /\ CandidatesOf(vac.result) = {}

\* A vacuum deleted the file of a partition directory whose tombstone had expired
\* and left alone a live file with an older expired tombstone of its own.
C20_Witness ==
    /\ vac.pc = "done"
    /\ ~vac.dry_run
    /\ vac.result.err = "Ok"
    /\ vac.state.files = <<Add(Relative(DataFile))>>
    /\ vac.state.tombstones = <<RemoveAt(Relative(DataFile), 1),
                                RemoveAt(Relative(PartitionFile), 1)>>
    /\ {DataFile, PartitionFile} \subseteq Range(vac.all_files)
    /\ vac.result.deleted = {PartitionFile}


EngineStart(op, store, t, version, check_point) ==
    [pc |-> "start", op |-> op, store |-> store, table |-> t, version |-> version,
     check_point |-> check_point, err |-> "none", after |-> t]

\* The function runs to its return.
EngineCall ==
    /\ engine.pc = "start"
    /\ \E listing \in ListObjs(engine.store) :
       LET r == CASE engine.op = "load" -> load(engine.store, engine.table)
                  [] engine.op = "update" -> update(engine.store, engine.table)
                  [] engine.op = "load_version" ->
                        load_version(engine.store, engine.table, engine.version, listing)
                  [] engine.op = "restore_checkpoint" ->
                        LET c == restore_checkpoint(engine.store, engine.check_point)
                        IN  [err |-> c.err, t |-> [engine.table EXCEPT !.state = c.state]]
       IN  engine' = [engine EXCEPT !.pc = "done", !.err = r.err, !.after = r.t]
    /\ UNCHANGED <<main_vars, search, projector, snapshot, vac, query, outage, finder>>

\* SpecRestore: checkpoints of up to MaxParts part files of up to MaxRows rows.
MaxParts == 2

MaxRows == 2

\* The rows of the part files: two rows that decode to actions and one that
\* Action::from_parquet_record rejects.
PartRows == {ToJson(Add("a")), ToJson(Remove("a")), BadLine}

\* The part files of a checkpoint: each is missing from the store or holds rows.
PartFiles == {None} \cup {Some(rows) : rows \in SeqsUpTo(PartRows, MaxRows)}

\* The store that holds the given part files of a checkpoint at version 0.
RestoreStore(parts) ==
    LET present == {i \in 1..Len(parts) : parts[i] # None} IN
    [log |-> <<>>,
     last_checkpoint |-> Some(CheckPoint(0, 0, Some(Len(parts)))),
     checkpoint_files |->
        [x \in {CheckpointPath(0, i, Len(parts)) : i \in present} |-> parts[x.part][1]],
     faults |-> {}]

\* The handle is new or already holds a file.
HandlesBefore ==
    {NewTable, [NewTable EXCEPT !.state = ProcessAction(DefaultState, Add("b"))]}

InitRestore ==
    /\ InitWith({0}, [a \in Handles |-> 0])
    /\ search = NoSearch
    /\ projector = NoProjector
    /\ snapshot = NoSnapshot
    /\ vac = NoVacuum
    /\ query = NoQuery
    /\ outage = NoOutage
    /\ finder = NoFinder
    /\ \E n \in 1..MaxParts, t \in HandlesBefore :
       \E parts \in [1..n -> PartFiles] :
          engine = EngineStart("restore_checkpoint", RestoreStore(parts), t, 0,
                               CheckPoint(0, 0, Some(n)))

NextRestore == EngineCall

SpecRestore == InitRestore /\ [][NextRestore]_vars

\* The rows of the part files up to the first missing file or invalid row.
RECURSIVE RowsRead(_)
RowsRead(parts) ==
    IF parts = <<>> \/ Head(parts) = None THEN <<>>
    ELSE LET rows == Head(parts)[1]
             bad == {i \in 1..Len(rows) : ~rows[i].valid}
         IN  IF bad = {} THEN rows \o RowsRead(Tail(parts))
             ELSE SubSeq(rows, 1, (CHOOSE i \in bad : \A j \in bad : i <= j) - 1)

\* The part files the call was given.
PartsGiven ==
    [i \in 1..engine.check_point.parts[1] |->
        IF CheckpointPath(0, i, engine.check_point.parts[1])
              \in DOMAIN engine.store.checkpoint_files
        THEN Some(engine.store.checkpoint_files[
                     CheckpointPath(0, i, engine.check_point.parts[1])])
        ELSE None]

\* C22: a restore_checkpoint that succeeds leaves the state that the rows of
\* all parts give from the empty state, whatever the handle held before, and
\* one that fails leaves the empty state.
C22_RestoreAtomic ==
    (engine.pc = "done" /\ engine.op = "restore_checkpoint")
    => /\ engine.err = "Ok"
          => engine.after.state =
                ReplayActions(DefaultState,
                    [i \in 1..Len(RowsRead(PartsGiven)) |-> RowsRead(PartsGiven)[i].action])
       /\ engine.err # "Ok" => engine.after.state = DefaultState

\* What restore_checkpoint leaves behind in either case: the state that the rows
\* read before the failure give from the empty state.
RestoreKeepsRowsRead ==
    (engine.pc = "done" /\ engine.op = "restore_checkpoint")
    => engine.after.state =
          ReplayActions(DefaultState,
              [i \in 1..Len(RowsRead(PartsGiven)) |-> RowsRead(PartsGiven)[i].action])


(* ------------------------------------------------------------------ *)
(* load, update and load_version on logs whose lines tell where they    *)
(* were read from                                                       *)
(* ------------------------------------------------------------------ *)

\* SpecEngine: stores with the log entries 0..n for n up to MaxEngineVersion.
MaxEngineVersion == 2

\* A commitInfo whose content names the file it is in (a log entry or a
\* checkpoint), the version of that file and its place in it: process_action
\* appends it to commit_infos, which so lists the actions applied, in order.
Mark(kind, version, index) ==
    CommitInfo([kind |-> kind, version |-> version, index |-> index])

\* Every file holds two lines.
LinesOf(kind, version) ==
    << ToJson(Mark(kind, version, 1)), ToJson(Mark(kind, version, 2)) >>

\* A _last_checkpoint written again for the same version by a writer that split
\* the checkpoint differently: another size, and one part of one.
RewrittenSize == 7

\* The store with log entries 0..n (none for n = -1), checkpoint files at the
\* versions in `checkpoints` and _last_checkpoint at the highest of them; with
\* `cleaned` the entries up to that version are gone, with `rewritten` the
\* pointer is that of a rewrite of the same version, whose one part holds lines
\* of its own beside the single-part file.
EngineStore(n, checkpoints, cleaned, rewritten) ==
    LET last == IF checkpoints = {} THEN -1
                ELSE CHOOSE k \in checkpoints : \A j \in checkpoints : j <= k
        paths == {CheckpointPath(k, 0, 0) : k \in checkpoints}
                 \cup (IF rewritten /\ last >= 0 THEN {CheckpointPath(last, 1, 1)} ELSE {})
    IN  [log |-> [v \in 0..n |-> IF cleaned /\ v <= last THEN None
                                 ELSE Some(LinesOf("log", v))],
         last_checkpoint |->
            IF last < 0 THEN None
            ELSE IF rewritten THEN Some(CheckPoint(last, RewrittenSize, Some(1)))
            ELSE Some(CheckPoint(last, Len(LinesOf("checkpoint", last)), None)),
         checkpoint_files |->
            [x \in paths |-> LinesOf(IF x.parts = 0 THEN "checkpoint" ELSE "parts",
                                     x.version)],
         faults |-> {}]

\* The handles a call starts from: a new one, or one that has load()ed the table
\* when it had entries 0..m and its checkpoint at an earlier or the same version.
EngineHandles(n, checkpoints) ==
    {NewTable} \cup
    UNION { { load(EngineStore(m, earlier, FALSE, FALSE), NewTable).t :
                 earlier \in {c \in SUBSET checkpoints :
                                 /\ Cardinality(c) <= 1
                                 /\ \A k \in c : k <= m} } :
            m \in 0..n }

InitEngine ==
    /\ InitWith({0}, [a \in Handles |-> 0])
    /\ search = NoSearch
    /\ projector = NoProjector
    /\ snapshot = NoSnapshot
    /\ vac = NoVacuum
    /\ query = NoQuery
    /\ outage = NoOutage
    /\ finder = NoFinder
    /\ \E n \in -1..MaxEngineVersion :
       \E checkpoints \in {c \in SUBSET (0..n) : Cardinality(c) <= 2} :
       \E cleaned \in BOOLEAN, rewritten \in BOOLEAN :
       \E t \in EngineHandles(n, checkpoints) :
       \E op \in {"load", "update", "load_version"} :
       \E version \in IF op = "load_version" THEN 0..MaxEngineVersion ELSE {0} :
          /\ checkpoints = {} => ~cleaned /\ ~rewritten
          /\ engine = EngineStart(op, EngineStore(n, checkpoints, cleaned, rewritten),
                                  t, version, CheckPoint(0, 0, None))

NextEngine == EngineCall

SpecEngine == InitEngine /\ [][NextEngine]_vars

\* The actions the call applied, in order: what it left in commit_infos, less
\* what the handle held before when the call did not start from the empty state.
Applied ==
    LET before == engine.table.state.commit_infos
        after == engine.after.state.commit_infos
    IN  IF Len(before) <= Len(after) /\ SubSeq(after, 1, Len(before)) = before
        THEN SubSeq(after, Len(before) + 1, Len(after))
        ELSE after

\* C23: in every load(), update() and load_version(), whatever it returns, the
\* actions of a checkpoint are applied before those of any log entry, the log
\* entries applied have ascending versions with none left out between the
\* first and the last, and the lines of one file are applied in file order
\* from its first line on.
C23_ReplayOrder ==
    engine.pc = "done"
    => \A i \in 1..Len(Applied) :
          LET this == Applied[i] IN
          /\ this.index = 1 \/ i > 1
          /\ i > 1
             => LET prev == Applied[i - 1] IN
                \/ /\ this.index = 2
                   /\ prev.kind = this.kind /\ prev.version = this.version
                   /\ prev.index = 1
                \/ /\ this.index = 1 /\ prev.index = 2
                   /\ \/ prev.kind # "log" /\ this.kind = "log"
                      \/ /\ prev.kind = "log" /\ this.kind = "log"
                         /\ this.version = prev.version + 1

\* An update() restored a newer checkpoint and then applied the two entries
\* after it.
C23_Witness ==
    /\ engine.pc = "done"
    /\ engine.op = "update"
    /\ engine.err = "Ok"
    /\ engine.table.last_check_point = None
    /\ engine.table.version = 0
    /\ Applied = << [kind |-> "checkpoint", version |-> 0, index |-> 1],
                    [kind |-> "checkpoint", version |-> 0, index |-> 2],
                    [kind |-> "log", version |-> 1, index |-> 1],
                    [kind |-> "log", version |-> 1, index |-> 2],
                    [kind |-> "log", version |-> 2, index |-> 1],
                    [kind |-> "log", version |-> 2, index |-> 2] >>


\* What the state holds after a restore from the checkpoint `check_point` of the
\* store followed by the entries up to `version`: the rows of its files, then
\* the lines of each entry after it, once.
RECURSIVE MarksUpTo(_, _)
MarksUpTo(from, version) ==
    IF version < from THEN <<>>
    ELSE MarksUpTo(from, version - 1)
         \o [i \in 1..2 |-> [kind |-> "log", version |-> version, index |-> i]]

RowsOf(store, check_point) ==
    LET paths == get_checkpoint_data_paths(check_point)
        rows == store.checkpoint_files[paths[1]]
    IN  [i \in 1..Len(rows) |-> rows[i].action.info]

\* The call restored from the _last_checkpoint of the store: the handle records
\* that descriptor, its version is not below the checkpoint's, and its state is
\* the checkpoint's rows followed by the entries after the checkpoint.
Restored ==
    /\ engine.store.last_checkpoint # None
    /\ engine.after.last_check_point = engine.store.last_checkpoint
    /\ engine.after.version >= engine.store.last_checkpoint[1].version
    /\ engine.after.state.commit_infos
          = RowsOf(engine.store, engine.store.last_checkpoint[1])
            \o MarksUpTo(engine.store.last_checkpoint[1].version + 1, engine.after.version)

\* C26: two checkpoint descriptors are equal exactly when their versions are,
\* whatever their size and parts; so an update() that finds a _last_checkpoint
\* restores from it exactly when the handle recorded no checkpoint or one of
\* another version.
C26_CheckPointEquality ==
    LET recorded == engine.table.last_check_point
        found == engine.store.last_checkpoint
    IN  /\ recorded # None /\ found # None
           => (CheckPointEq(recorded[1], found[1])
                 <=> recorded[1].version = found[1].version)
        /\ engine.pc = "done" /\ engine.op = "update" /\ found # None
           => (Restored <=> \/ recorded = None
                            \/ recorded[1].version # found[1].version)

\* An update() found the checkpoint of the version the handle had recorded
\* written again with another size and in parts, and did not restore from it.
C26_Witness ==
    /\ engine.pc = "done"
    /\ engine.op = "update"
    /\ engine.table.last_check_point # None
    /\ engine.store.last_checkpoint # None
    /\ engine.store.last_checkpoint # engine.table.last_check_point
    /\ engine.store.last_checkpoint[1].version = engine.table.last_check_point[1].version
    /\ engine.after.last_check_point = engine.table.last_check_point
    /\ ~Restored


\* The store holds no log entry and no checkpoint.
EmptyStore ==
    /\ \A v \in DOMAIN engine.store.log : engine.store.log[v] = None
    /\ engine.store.last_checkpoint = None
    /\ DOMAIN engine.store.checkpoint_files = {}

\* C27: update() on a store that holds no log entry and no checkpoint fails
\* with NotATable.
C27_UpdateEmptyStore ==
    engine.pc = "done" /\ engine.op = "update" /\ EmptyStore
    => engine.err = "NotATable"

\* What update() does there on a new handle: it returns Ok and leaves version 0.
UpdateEmptyStoreNewHandle ==
    /\ engine.pc = "done" /\ engine.op = "update" /\ EmptyStore
    /\ engine.table = NewTable
    => engine.err = "Ok" /\ engine.after = engine.table


\* The log entries among the actions the call applied.
AppliedEntries == SelectSeq(Applied, LAMBDA m : m.kind = "log")

\* C29: update() applies no log entry that the state already reflects: when it
\* finds no _last_checkpoint, or one of the version the handle recorded, the
\* first entry it applies is the one after the handle's version; when it finds
\* a newer checkpoint K, the first entry it applies is K + 1.
C29_UpdateNoReapply ==
    LET recorded == engine.table.last_check_point
        found == engine.store.last_checkpoint
        newer == found # None /\ (recorded = None \/ recorded[1].version # found[1].version)
        marks == engine.after.state.commit_infos
    IN  engine.pc = "done" /\ engine.op = "update"
        => /\ AppliedEntries # <<>>
              => AppliedEntries[1].version
                    = IF newer THEN found[1].version + 1 ELSE engine.table.version + 1
           /\ \A i, j \in 1..Len(marks) : marks[i] = marks[j] => i = j

\* What update() does when the _last_checkpoint it finds is the recorded one: it
\* starts at the handle's version, not after it.
UpdateStartsAtVersion ==
    LET recorded == engine.table.last_check_point
        found == engine.store.last_checkpoint
    IN  /\ engine.pc = "done" /\ engine.op = "update"
        /\ found # None /\ recorded # None
        /\ recorded[1].version = found[1].version
        /\ AppliedEntries # <<>>
        => AppliedEntries[1].version = engine.table.version


(* ------------------------------------------------------------------ *)
(* load, update and load_version on stores with unreadable objects      *)
(* ------------------------------------------------------------------ *)

\* SpecFaults: stores with the log entries 0..n for n up to MaxFaultVersion.
MaxFaultVersion == 2

\* What can be wrong with one object of the store: a log entry that is missing,
\* cannot be read or ends in a line that is not an action, a _last_checkpoint
\* that cannot be read or is not a descriptor.
Defects(n) ==
    {Fault("none", 0, "none")}
    \cup {Fault("log", v, e) : v \in 0..n, e \in {"NotFound", "Other", "InvalidJson"}}
    \cup {Fault("_last_checkpoint", 0, e) : e \in {"Other", "InvalidJson"}}

\* The store of EngineStore(n, checkpoints, FALSE, FALSE) with one defect.
FaultyStore(n, checkpoints, defect) ==
    LET sound == EngineStore(n, checkpoints, FALSE, FALSE) IN
    [sound EXCEPT
        !.log = [v \in DOMAIN sound.log |->
                    IF defect.object = "log" /\ defect.version = v
                    THEN (CASE defect.error = "NotFound" -> None
                            [] defect.error = "InvalidJson" ->
                                 Some(<< LinesOf("log", v)[1], BadLine >>)
                            [] OTHER -> sound.log[v])
                    ELSE sound.log[v]],
        !.faults = IF defect.object = "none" \/ defect.error = "NotFound" THEN {}
                   ELSE IF defect.object = "log" /\ defect.error = "InvalidJson" THEN {}
                   ELSE {defect}]

InitFaults ==
    /\ InitWith({0}, [a \in Handles |-> 0])
    /\ search = NoSearch
    /\ projector = NoProjector
    /\ snapshot = NoSnapshot
    /\ vac = NoVacuum
    /\ query = NoQuery
    /\ outage = NoOutage
    /\ finder = NoFinder
    /\ \E n \in 0..MaxFaultVersion :
       \E checkpoints \in {c \in SUBSET (0..n) : Cardinality(c) <= 1} :
       \E defect \in Defects(n) :
       \E t \in EngineHandles(n, checkpoints) :
       \E op \in {"load", "update", "load_version"} :
       \E version \in IF op = "load_version" THEN 0..n ELSE {0} :
          /\ defect.object = "_last_checkpoint" => checkpoints # {}
          /\ engine = EngineStart(op, FaultyStore(n, checkpoints, defect),
                                  t, version, CheckPoint(0, 0, None))

NextFaults == EngineCall

SpecFaults == InitFaults /\ [][NextFaults]_vars

\* The log entry is absent from the store: reading it is a storage NotFound.
NotFoundEntry(version) ==
    /\ Fault("log", version, "Other") \notin engine.store.faults
    /\ version \in DOMAIN engine.store.log => engine.store.log[version] = None

\* The log entry cannot be read: a storage error other than NotFound.
UnreadableEntry(version) == Fault("log", version, "Other") \in engine.store.faults

\* The log entry can be read and holds a line that is not an action.
InvalidEntry(version) ==
    /\ ~UnreadableEntry(version)
    /\ version \in DOMAIN engine.store.log
    /\ engine.store.log[version] # None
    /\ \E i \in DOMAIN engine.store.log[version][1] : ~engine.store.log[version][1][i].valid

\* C24: load() and update() return Ok only when the replay stopped at a log
\* entry that is NotFound and _last_checkpoint was read or NotFound; a
\* _last_checkpoint that cannot be read or is invalid, a log entry that cannot
\* be read and an invalid line each make them return that error, with version
\* at the entry that failed; a NotFound on _last_checkpoint is no error of its
\* own; and load_version returns EndOfLog when an entry between the checkpoint
\* it starts from and the version asked for is NotFound.
C24_ErrorPropagation ==
    LET faults == engine.store.faults
        forward == engine.op \in {"load", "update"}
        stopped == engine.after.version
    IN  engine.pc = "done"
        => /\ forward /\ Fault("_last_checkpoint", 0, "Other") \in faults
              => engine.err = "LoadCheckpoint { Storage }" /\ engine.after = engine.table
           /\ forward /\ Fault("_last_checkpoint", 0, "InvalidJson") \in faults
              => engine.err = "LoadCheckpoint { InvalidJson }" /\ engine.after = engine.table
           /\ forward /\ engine.store.last_checkpoint = None
              => engine.err \in {"Ok", "Storage", "InvalidJson", "NotATable"}
           /\ forward /\ engine.err = "Ok"
              => /\ NotFoundEntry(stopped + 1)
                 /\ \A f \in faults : f.object # "_last_checkpoint"
           /\ forward /\ engine.err = "Storage" => UnreadableEntry(stopped)
           /\ forward /\ engine.err = "InvalidJson" => InvalidEntry(stopped)
           /\ forward /\ engine.err = "NotATable" => stopped = -1 /\ NotFoundEntry(0)
           /\ forward
              => engine.err \in {"Ok", "Storage", "InvalidJson", "NotATable",
                                 "LoadCheckpoint { Storage }",
                                 "LoadCheckpoint { InvalidJson }"}
           /\ /\ engine.op = "load_version"
              /\ ~NotFoundEntry(engine.version) /\ ~UnreadableEntry(engine.version)
              /\ \E u \in 0..(engine.version - 1) :
                    /\ NotFoundEntry(u)
                    /\ \A x \in DOMAIN engine.store.checkpoint_files : x.version < u
                    /\ \A w \in 0..(u - 1) : ~UnreadableEntry(w) /\ ~InvalidEntry(w)
              => engine.err = "EndOfLog"

\* A load() came to a log entry that could not be read after it had applied the
\* entry before it, and returned the storage error.
C24_Witness ==
    /\ engine.pc = "done"
    /\ engine.op = "load"
    /\ engine.err = "Storage"
    /\ engine.after.version = 1
    /\ UnreadableEntry(1)
    /\ Len(engine.after.state.commit_infos) = 2


(* ------------------------------------------------------------------ *)
(* The state projector on actions of every tag                          *)
(* ------------------------------------------------------------------ *)

\* SpecFrame: sequences of up to MaxFrameActions actions of any tag.
MaxFrameActions == 3

AppIds == {"x", "y"}

AnyActions ==
    {Add(p) : p \in Paths} \cup {Remove(p) : p \in Paths}
    \cup {Protocol(r, w) : r \in 1..2, w \in 1..2}
    \cup {MetaData(id, <<>>) : id \in {"m1", "m2"}}
    \cup {Txn(app, v) : app \in AppIds, v \in 1..2}
    \cup {CommitInfo(i) : i \in 1..2}

\* One action of any tag replayed into the state.
ReplayAny ==
    /\ Len(projector.history) < MaxFrameActions
    /\ \E action \in AnyActions :
          projector' = [history |-> Append(projector.history, action),
                        state |-> ProcessAction(projector.state, action)]
    /\ UNCHANGED <<main_vars, search, snapshot, vac, engine, query, outage, finder>>

InitFrame == InitProjector

NextFrame == ReplayAny

SpecFrame == InitFrame /\ [][NextFrame]_vars

\* The state fields other than those named are the same in both states.
SameExcept(s1, s2, fields) ==
    \A f \in (DOMAIN s1) \ fields : s1[f] = s2[f]

\* C25: each replayed action changes only its own part of the state: add and
\* remove only files and tombstones, protocol only the two minimum versions,
\* metaData only current_metadata, commitInfo only commit_infos, and txn only
\* app_transaction_version, where it sets the entry of its appId to its
\* version, present before or not, and leaves every other appId's entry as it
\* was.
C25_ProjectorFrame ==
    [][ projector'.history # projector.history
        => LET action == projector'.history[Len(projector'.history)]
               s1 == projector.state
               s2 == projector'.state
           IN  /\ DOMAIN s2 = DOMAIN s1
               /\ action.tag \in {"add", "remove"}
                  => SameExcept(s1, s2, {"files", "tombstones"})
               /\ action.tag = "protocol"
                  => /\ SameExcept(s1, s2, {"min_reader_version", "min_writer_version"})
                     /\ s2.min_reader_version = action.minReaderVersion
                     /\ s2.min_writer_version = action.minWriterVersion
               /\ action.tag = "metaData"
                  => /\ SameExcept(s1, s2, {"current_metadata"})
                     /\ s2.current_metadata # None
                     /\ s2.current_metadata[1].id = action.id
               /\ action.tag = "commitInfo"
                  => /\ SameExcept(s1, s2, {"commit_infos"})
                     /\ s2.commit_infos = Append(s1.commit_infos, action.info)
               /\ action.tag = "txn"
                  => /\ SameExcept(s1, s2, {"app_transaction_version"})
                     /\ DOMAIN s2.app_transaction_version
                           = DOMAIN s1.app_transaction_version \cup {action.appId}
                     /\ s2.app_transaction_version[action.appId] = action.version
                     /\ \A app \in DOMAIN s1.app_transaction_version :
                           app # action.appId
                           => s2.app_transaction_version[app]
                                 = s1.app_transaction_version[app]
      ]_vars

\* An appId's version was written, another appId's after it, and the first
\* written again with another version.
C25_Witness ==
    /\ projector.history = <<Txn("x", 2), Txn("y", 2), Txn("x", 1)>>
    /\ projector.state.app_transaction_version = [app \in AppIds |->
                                                     IF app = "x" THEN 1 ELSE 2]


(* ------------------------------------------------------------------ *)
(* get_files_by_partitions                                              *)
(* ------------------------------------------------------------------ *)

\* SpecPartitions: tables of up to MaxFiles files queried with up to
\* MaxFilters filters.
MaxFiles == 2

MaxFilters == 2

\* A path is the sequence of its segments between "/", a segment the sequence
\* of its parts between "=": "a=1/f" is << <<"a", "1">>, <<"f">> >>.  A text
\* cut out of a path is the sequence of the strings that "/" separates in it.
Segment(key, value) == <<key, value>>

Plain(name) == <<name>>

\* str::splitn(count, "/"): the first count - 1 segments, then the rest of the
\* path as one piece.
splitn(path, count) ==
    IF Len(path) <= count THEN [i \in 1..Len(path) |-> <<path[i]>>]
    ELSE [i \in 1..count |-> IF i < count THEN <<path[i]>>
                             ELSE SubSeq(path, count, Len(path))]

\* The number of "=" in a piece.
RECURSIVE EqualSigns(_)
EqualSigns(piece) ==
    IF piece = <<>> THEN 0
    ELSE (Len(Head(piece)) - 1) + EqualSigns(Tail(piece))

\* DeltaTablePartition::try_from: the piece split at "=" must give a key and a
\* value, that is hold one "="; None is the error.
try_from(piece) ==
    IF EqualSigns(piece) # 1 THEN None
    ELSE LET i == CHOOSE k \in DOMAIN piece : Len(piece[k]) = 2 IN
         Some([key |-> [j \in 1..i |-> piece[j][1]],
               value |-> <<piece[i][2]>>
                         \o [j \in 1..(Len(piece) - i) |-> piece[i + j][1]]])

\* PartitionFilter {key, value}: Equal(v) and NotEqual(v) hold one value, In and
\* NotIn a list of them.
PartitionFilter(key, op, values) == [key |-> key, op |-> op, values |-> values]

\* PartitionFilter::match_partition
match_partition(filter, partition) ==
    /\ partition.key = <<filter.key>>
    /\ LET among == \E v \in filter.values : partition.value = <<v>> IN
       IF filter.op \in {"equal", "in"} THEN among ELSE ~among

\* PartitionFilter::match_partitions: any partition of the file matches
match_partitions(filter, partitions) ==
    \E partition \in partitions : match_partition(filter, partition)

\* The partitions collected from the pieces of a path: filter_map keeps those
\* that try_from accepts.
PartitionsOf(path, partitions_number) ==
    LET pieces == splitn(path, partitions_number + 1) IN
    {try_from(pieces[i])[1] : i \in {k \in DOMAIN pieces : try_from(pieces[k]) # None}}

\* DeltaTable::get_files_by_partitions
get_files_by_partitions(state, filters) ==
    IF state.current_metadata = None THEN [err |-> "NoMetadata", files |-> <<>>]
    ELSE IF state.current_metadata[1].partition_columns = <<>>
    THEN [err |-> "LoadPartitions", files |-> <<>>]
    ELSE LET partitions_number == Len(state.current_metadata[1].partition_columns)
             kept == SelectSeq(state.files,
                        LAMBDA add : \A i \in DOMAIN filters :
                            match_partitions(filters[i],
                                             PartitionsOf(add.path, partitions_number)))
         IN  [err |-> "Ok", files |-> [i \in DOMAIN kept |-> kept[i].path]]

\* Data files: under one partition directory, under two, named like an
\* assignment, outside any partition directory, and under a directory with two
\* "=" in its name.
DataPaths ==
    { << Segment("a", "1"), Plain("f") >>,
      << Segment("a", "2"), Segment("b", "1"), Plain("f") >>,
      << Segment("a", "1"), Segment("b", "1") >>,
      << Plain("f") >>,
      << <<"a", "1", "2">>, Plain("f") >> }

Filters ==
    { PartitionFilter("a", "equal", {"1"}),
      PartitionFilter("a", "not_equal", {"1"}),
      PartitionFilter("b", "equal", {"1"}),
      PartitionFilter("b", "not_equal", {"1"}),
      PartitionFilter("a", "in", {"1", "2"}),
      PartitionFilter("a", "not_in", {"1"}) }

\* The table states queried: no metadata, or metadata with no, one or two
\* partition columns.
QueryMetadata ==
    {None} \cup {Some([id |-> "m1", partition_columns |-> cols]) :
                    cols \in {<<>>, <<"a">>, <<"a", "b">>}}

Query ==
    /\ query.pc = "start"
    /\ LET r == get_files_by_partitions(query.state, query.filters) IN
       query' = [query EXCEPT !.pc = "done", !.err = r.err, !.files = r.files]
    /\ UNCHANGED <<main_vars, search, projector, snapshot, vac, engine, outage, finder>>

InitPartitions ==
    /\ InitWith({0}, [a \in Handles |-> 0])
    /\ search = NoSearch
    /\ projector = NoProjector
    /\ snapshot = NoSnapshot
    /\ vac = NoVacuum
    /\ engine = NoEngine
    /\ outage = NoOutage
    /\ finder = NoFinder
    /\ \E paths \in SeqsUpTo(DataPaths, MaxFiles) :
       \E filters \in SeqsUpTo(Filters, MaxFilters) :
       \E metadata \in QueryMetadata :
          query = [pc |-> "start",
                   state |-> [DefaultState EXCEPT
                                 !.files = [i \in DOMAIN paths |-> Add(paths[i])],
                                 !.current_metadata = metadata],
                   filters |-> filters, err |-> "none", files |-> <<>>]

NextPartitions == Query

SpecPartitions == InitPartitions /\ [][NextPartitions]_vars

\* The assignments of a path's first `count` segments: those that are a key,
\* one "=" and a value.
Assignments(path, count) ==
    {path[i] : i \in {k \in DOMAIN path : k <= count /\ Len(path[k]) = 2}}

\* The filter matches one of the assignments.
FilterMatches(filter, assignments) ==
    \E a \in assignments :
       /\ a[1] = filter.key
       /\ IF filter.op \in {"equal", "in"} THEN a[2] \in filter.values
          ELSE a[2] \notin filter.values

\* The paths, in files order, of the files whose first partitionColumns.len()
\* segments satisfy every filter.
Selected ==
    LET count == Len(query.state.current_metadata[1].partition_columns)
        kept == SelectSeq(query.state.files,
                   LAMBDA add : \A i \in DOMAIN query.filters :
                       FilterMatches(query.filters[i], Assignments(add.path, count)))
    IN  [i \in DOMAIN kept |-> kept[i].path]

\* C28: get_files_by_partitions fails with NoMetadata when no metadata is
\* loaded and with LoadPartitions when the partition column list is empty;
\* otherwise it returns, in files order, exactly the paths of the files for
\* which every filter matches the assignments of the first
\* partitionColumns.len() path segments (every file for no filter, and no
\* file for a filter on a column absent from those segments).
C28_FilesByPartitions ==
    query.pc = "done"
    => IF query.state.current_metadata = None THEN query.err = "NoMetadata"
       ELSE IF query.state.current_metadata[1].partition_columns = <<>>
       THEN query.err = "LoadPartitions"
       ELSE query.err = "Ok" /\ query.files = Selected

\* The same holds for the tables in which no file has, after its first
\* partitionColumns.len() segments, a rest with exactly one "=" in it.
FilesByPartitionsPlainRest ==
    /\ query.pc = "done"
    /\ query.state.current_metadata # None
    /\ query.state.current_metadata[1].partition_columns # <<>>
    /\ \A i \in DOMAIN query.state.files :
          LET path == query.state.files[i].path
              count == Len(query.state.current_metadata[1].partition_columns)
          IN  EqualSigns(SubSeq(path, count + 1, Len(path))) # 1
    => query.err = "Ok" /\ query.files = Selected


(* ------------------------------------------------------------------ *)
(* commit_with while the storage fails                                  *)
(* ------------------------------------------------------------------ *)

\* SpecOutage: one commit_with over the versions 0..MaxOutageVersion.
MaxOutageVersion == 2

\* What can fail: the put of the temporary file, the rename, the read of
\* _last_checkpoint or of a log entry.
Outages ==
    {[failing |-> {op}, faults |-> {}] : op \in {"put_obj", "rename_obj"}}
    \cup {[failing |-> {}, faults |-> {Fault("_last_checkpoint", 0, "Other")}]}
    \cup {[failing |-> {}, faults |-> {Fault("log", v, "Other")}] :
             v \in 0..MaxOutageVersion}

\* The storage starts to fail, at any moment of the call.
Break ==
    /\ outage = NoOutage
    /\ finder = NoFinder
    /\ outage' \in Outages
    /\ UNCHANGED <<main_vars, search, projector, snapshot, vac, engine, query, finder>>

InitOutage ==
    /\ outage = NoOutage
    /\ finder = NoFinder
    /\ InitWith(0..MaxOutageVersion, [a \in Handles |-> IF a = "h1" THEN 1 ELSE 0])
    /\ search = NoSearch
    /\ projector = NoProjector
    /\ snapshot = NoSnapshot
    /\ vac = NoVacuum
    /\ engine = NoEngine
    /\ query = NoQuery

\* One commit_with of h1 with one retry allowed, while other writers commit and
\* the storage may start to fail.
NextOutage ==
    \/ CommitWithOptions("h1", {1})
    \/ NextAttemptVersion("h1")
    \/ TryCommitLoop("h1")
    \/ UpdateAfterCommit("h1")
    \/ ExternalCommit
    \/ Break

SpecOutage == InitOutage /\ [][NextOutage]_vars

\* C30: in commit_with, a put or a rename that fails with a storage error other
\* than AlreadyExists, and an update() that fails before an attempt, each end
\* the call in that step with an error, nothing renamed; the call goes back to
\* another attempt only after a rename that found its destination taken.
C30_StorageErrorsEndCommit ==
    [][ LET a == "h1" IN
        /\ calls_left'[a] < calls_left[a] /\ "put_obj" \in outage.failing
           => /\ pc'[a] = "idle"
              /\ call'[a].status = "TransactionCommitAttempt"
              /\ call'[a].rename_attempts = 0
              /\ log' = log /\ tmp_files' = tmp_files
        /\ pc[a] = "try_commit_loop" /\ pc'[a] # pc[a] /\ "rename_obj" \in outage.failing
           => /\ pc'[a] = "idle"
              /\ call'[a].status = "TransactionCommitAttempt"
              /\ call'[a].rename_attempts = call[a].rename_attempts + 1
              /\ log' = log
        /\ /\ pc[a] = "next_attempt_version" /\ pc'[a] # pc[a]
           /\ update(Store, table[a]).err # "Ok"
           => /\ pc'[a] = "idle"
              /\ call'[a].status = "TransactionCommitAttempt"
              /\ call'[a].rename_attempts = call[a].rename_attempts
              /\ log' = log
        /\ pc[a] = "try_commit_loop" /\ pc'[a] = "next_attempt_version"
           => /\ "rename_obj" \notin outage.failing
              /\ log[call[a].version] # None
              /\ log' = log
              /\ call'[a].attempt_number = call[a].attempt_number + 1
      ]_vars

\* A commit_with lost its first rename to another writer, tried again, and was
\* ended by a rename that failed with another storage error.
C30_Witness ==
    /\ pc["h1"] = "idle"
    /\ call["h1"].op = "commit_with"
    /\ call["h1"].status = "TransactionCommitAttempt"
    /\ call["h1"].attempt_number = 1
    /\ call["h1"].rename_attempts = 2
    /\ "rename_obj" \in outage.failing


(* ------------------------------------------------------------------ *)
(* find_latest_check_point_for_version on listings in any order         *)
(* ------------------------------------------------------------------ *)

\* SpecListing: listings of up to MaxListed checkpoint files.
MaxListed == 3

\* The checkpoint files a log directory may hold: single-part ones at three
\* versions, both parts of a two-part one and the part of a one-part one.
ListedFiles ==
    {CheckpointPath(v, 0, 0) : v \in 0..2}
    \cup {CheckpointPath(1, i, 2) : i \in 1..2}
    \cup {CheckpointPath(2, 1, 1)}

\* list_objs gives the files it holds in an order of its own.
Listings ==
    {l \in SeqsUpTo(ListedFiles, MaxListed) : \A i, j \in DOMAIN l : l[i] = l[j] => i = j}

FindLatest ==
    /\ finder.pc = "start"
    /\ finder' = [finder EXCEPT
                     !.pc = "done",
                     !.result = find_latest_check_point_for_version(finder.listing,
                                                                    finder.version)]
    /\ UNCHANGED <<main_vars, search, projector, snapshot, vac, engine, query, outage>>

InitListing ==
    /\ outage = NoOutage
    /\ InitWith({0}, [a \in Handles |-> 0])
    /\ search = NoSearch
    /\ projector = NoProjector
    /\ snapshot = NoSnapshot
    /\ vac = NoVacuum
    /\ engine = NoEngine
    /\ query = NoQuery
    /\ \E listing \in Listings, version \in 0..2 :
          finder = [pc |-> "start", listing |-> listing, version |-> version,
                    result |-> None]

NextListing == FindLatest

SpecListing == InitListing /\ [][NextListing]_vars

\* The positions in the listing of the checkpoint files at or below the limit.
Eligible == {i \in DOMAIN finder.listing : finder.listing[i].version <= finder.version}

\* The descriptor is the one made from the listed file.
Describes(check_point, file) ==
    /\ check_point.version = file.version
    /\ check_point.parts = IF file.parts = 0 THEN None ELSE Some(file.parts)

\* C32: whatever the order of the listing, find_latest_check_point_for_version
\* returns a checkpoint made from a listed file, single-part or multi-part,
\* whose version is the greatest listed version at or below the limit, never
\* one above the limit, and None when no file at or below the limit is listed.
C32_LatestCheckpointAtOrBelow ==
    finder.pc = "done"
    => IF Eligible = {} THEN finder.result = None
       ELSE /\ finder.result # None
            /\ finder.result[1].version <= finder.version
            /\ \A i \in Eligible : finder.listing[i].version <= finder.result[1].version
            /\ \E i \in Eligible : Describes(finder.result[1], finder.listing[i])

\* A two-part checkpoint below the limit was chosen from a listing that holds
\* an older single-part one before it and a newer one above the limit.
C32_Witness ==
    /\ finder.pc = "done"
    /\ finder.version = 1
    /\ finder.listing = << CheckpointPath(2, 0, 0), CheckpointPath(0, 0, 0),
                           CheckpointPath(1, 2, 2) >>
    /\ finder.result = Some(CheckPoint(1, 0, Some(2)))

\* The positions of the files of the version returned.
Ties ==
    {i \in Eligible : finder.result # None
                      /\ finder.listing[i].version = finder.result[1].version}

\* C33: when the listing holds a single-part and a multi-part checkpoint of the
\* greatest version at or below the limit, the one returned is the one seen
\* last in the listing.
C33_TieKeepsLast ==
    /\ finder.pc = "done"
    /\ \E i, j \in Ties : (finder.listing[i].parts = 0) # (finder.listing[j].parts = 0)
    => LET last == CHOOSE i \in Ties : \A j \in Ties : j <= i
       IN  Describes(finder.result[1], finder.listing[last])

\* What the scan does: it keeps the first file of the version that it meets.
TieKeepsFirst ==
    finder.pc = "done" /\ Ties # {}
    => LET first == CHOOSE i \in Ties : \A j \in Ties : i <= j
       IN  Describes(finder.result[1], finder.listing[first])

(* ------------------------------------------------------------------ *)
(* SpecLatest: get_latest_version against load()                        *)
(* ------------------------------------------------------------------ *)

\* The loop of get_latest_version: head_obj of one log entry after the other,
\* the timestamp of each entry found goes to version_timestamp (cached holds
\* the versions inserted); NotFound ends the scan one version back, another
\* storage error ends the call.
RECURSIVE HeadScan(_, _, _)
HeadScan(S, version, cached) ==
    LET error == LogObjError(S, version) IN
    IF error = "Ok" THEN HeadScan(S, version + 1, cached \cup {version})
    ELSE IF error = "NotFound"
    THEN [err |-> "Ok", version |-> version - 1, cached |-> cached]
    ELSE [err |-> "StorageError", version |-> version, cached |-> cached]

\* get_latest_version: the scan starts at the version of _last_checkpoint, at 0
\* without one.
get_latest_version(S) ==
    LET error == GetLastCheckpointError(S) IN
    IF error \notin {"Ok", "NotFound"}
    THEN [err |-> LoadCheckpoint(error), version |-> 0, cached |-> {}]
    ELSE HeadScan(S, IF error = "Ok" THEN get_last_checkpoint(S)[1].version ELSE 0, {})

\* get_latest_version runs to its return: the handle keeps its version, its
\* state and its last checkpoint, the version found is in latest.
GetLatestVersion ==
    /\ engine.pc = "start"
    /\ engine.op = "get_latest_version"
    /\ LET r == get_latest_version(engine.store)
       IN  engine' = [engine EXCEPT !.pc = "done", !.err = r.err,
                                    !.latest = r.version, !.cached = r.cached]
    /\ UNCHANGED <<main_vars, search, projector, snapshot, vac, query, outage, finder>>

\* The stores of SpecEngine, with a log entry that cannot be read in some, and
\* the handles of SpecEngine.
InitLatest ==
    /\ InitWith({0}, [a \in Handles |-> 0])
    /\ search = NoSearch
    /\ projector = NoProjector
    /\ snapshot = NoSnapshot
    /\ vac = NoVacuum
    /\ query = NoQuery
    /\ outage = NoOutage
    /\ finder = NoFinder
    /\ \E n \in -1..MaxEngineVersion :
       \E checkpoints \in {c \in SUBSET (0..n) : Cardinality(c) <= 2} :
       \E cleaned \in BOOLEAN, rewritten \in BOOLEAN :
       \E t \in EngineHandles(n, checkpoints) :
       \E unreadable \in SUBSET (0..n) :
          /\ checkpoints = {} => ~cleaned /\ ~rewritten
          /\ Cardinality(unreadable) <= 1
          /\ engine =
                [pc |-> "start", op |-> "get_latest_version",
                 store |-> [EngineStore(n, checkpoints, cleaned, rewritten) EXCEPT
                               !.faults = {Fault("log", v, "Other") : v \in unreadable}],
                 table |-> t, err |-> "none", after |-> t, latest |-> 0, cached |-> {}]

NextLatest == GetLatestVersion

SpecLatest == InitLatest /\ [][NextLatest]_vars

\* The version of _last_checkpoint when the store has one and the log entry of
\* that version is gone.
CheckpointEntryRemoved ==
    /\ engine.store.last_checkpoint # None
    /\ GetLogObj(engine.store, engine.store.last_checkpoint[1].version) = None

\* C34: the version that get_latest_version returns is the one load() reaches
\* on the same store, with or without _last_checkpoint and also when the log
\* entry of the checkpoint's version has been removed; the call leaves the
\* version, the state and the last checkpoint of the handle as they were.
C34_LatestVersionIsLoadVersion ==
    engine.pc = "done" /\ engine.op = "get_latest_version"
    => LET l == load(engine.store, NewTable) IN
       /\ l.err = "Ok" /\ engine.err = "Ok" => engine.latest = l.t.version
       /\ engine.after = engine.table

\* Where the two agree: on the stores that still hold the log entry of the
\* checkpoint's version, and on those without a checkpoint.
LatestVersionEntryKept ==
    /\ engine.pc = "done" /\ engine.op = "get_latest_version"
    /\ ~CheckpointEntryRemoved
    => LET l == load(engine.store, NewTable) IN
       /\ l.err = "Ok" /\ engine.err = "Ok" => engine.latest = l.t.version
       /\ engine.after = engine.table

\* What the scan returns when that entry is gone: the version before the
\* checkpoint, with nothing cached.
LatestVersionEntryRemoved ==
    /\ engine.pc = "done" /\ engine.op = "get_latest_version"
    /\ CheckpointEntryRemoved
    /\ engine.store.faults = {}
    => /\ engine.err = "Ok"
       /\ engine.latest = engine.store.last_checkpoint[1].version - 1
       /\ engine.cached = {}

(* ------------------------------------------------------------------ *)
(* SpecSession: two calls in a row on one handle                        *)
(* ------------------------------------------------------------------ *)

\* What fails during the first call: nothing, the read of one log entry, or the
\* read of the checkpoint files.
Failures(n, checkpoints) ==
    {Fault("none", 0, "none")}
    \cup {Fault("log", v, "Other") : v \in 0..n}
    \cup {Fault("checkpoint", k, "Other") : k \in checkpoints}

\* The store as the first call sees it: get_obj of the failing object returns
\* an error that is not NotFound.
FailingStore(sound, failure) ==
    [sound EXCEPT
        !.faults = IF failure.object = "log" THEN {failure} ELSE {},
        !.checkpoint_files =
            IF failure.object = "checkpoint"
            THEN [x \in {y \in DOMAIN sound.checkpoint_files :
                            y.version # failure.version} |-> sound.checkpoint_files[x]]
            ELSE sound.checkpoint_files]

\* The second call: the same function on the handle as the first call left it,
\* over the store as it is by then.
CallAgain ==
    /\ engine.pc = "done"
    /\ LET r == CASE engine.op = "load" -> load(engine.again, engine.after)
                  [] engine.op = "update" -> update(engine.again, engine.after)
       IN  engine' = [engine EXCEPT !.pc = "again", !.err_again = r.err, !.final = r.t]
    /\ UNCHANGED <<main_vars, search, projector, snapshot, vac, query, outage, finder>>

\* load() twice over one store, cleaned or not; update() over a store where
\* one read may fail and then over the same store with every read succeeding.
InitSession ==
    /\ InitWith({0}, [a \in Handles |-> 0])
    /\ search = NoSearch
    /\ projector = NoProjector
    /\ snapshot = NoSnapshot
    /\ vac = NoVacuum
    /\ query = NoQuery
    /\ outage = NoOutage
    /\ finder = NoFinder
    /\ \E n \in 0..MaxEngineVersion :
       \E checkpoints \in {c \in SUBSET (0..n) : Cardinality(c) <= 1} :
       \E t \in EngineHandles(n, checkpoints) :
       \E op \in {"load", "update"} :
       \E cleaned \in BOOLEAN :
       \E failure \in Failures(n, checkpoints) :
          LET sound == EngineStore(n, checkpoints, cleaned, FALSE) IN
          /\ checkpoints = {} => ~cleaned
          /\ op = "load" => failure.object = "none"
          /\ op = "update" => ~cleaned
          /\ engine =
                [pc |-> "start", op |-> op, store |-> FailingStore(sound, failure),
                 table |-> t, version |-> 0, check_point |-> CheckPoint(0, 0, None),
                 err |-> "none", after |-> t,
                 again |-> sound, err_again |-> "none", final |-> t]

NextSession == EngineCall \/ CallAgain

SpecSession == InitSession /\ [][NextSession]_vars

\* The handle a new load() of the store of the second call gives.
FreshLoad == load(engine.again, NewTable).t

\* C35: when update() fails, on a read of a log entry or while it restores a
\* newer checkpoint, the next update() that succeeds leaves the handle at the
\* version and in the state of a fresh load(): every log entry applied once,
\* the checkpoint restored again.
C35_FailedUpdateRetryable ==
    /\ engine.pc = "again" /\ engine.op = "update"
    /\ engine.err # "Ok" /\ engine.err_again = "Ok"
    => /\ engine.final.version = FreshLoad.version
       /\ engine.final.state = FreshLoad.state

\* What the failed call leaves behind when the checkpoint files cannot be
\* read: the new checkpoint is recorded, the state is emptied and the version
\* is the old one; the next update() finds the checkpoint unchanged and
\* applies no row of it.
FailedRestoreIsKept ==
    /\ engine.pc = "again" /\ engine.op = "update"
    /\ engine.err = "StorageError"
    /\ ~OptCheckPointEq(engine.table.last_check_point, engine.store.last_checkpoint)
    => /\ engine.after.last_check_point = engine.store.last_checkpoint
       /\ engine.after.state = DefaultState
       /\ engine.after.version = engine.table.version
       /\ \A i \in DOMAIN engine.final.state.commit_infos :
             engine.final.state.commit_infos[i].kind # "checkpoint"

\* C36: load() called twice in a row over an unchanged store leaves the version
\* and the state that one call leaves, with a checkpoint and without one.
C36_LoadIdempotent ==
    /\ engine.pc = "again" /\ engine.op = "load"
    /\ engine.err = "Ok" /\ engine.err_again = "Ok"
    => /\ engine.final.version = engine.after.version
       /\ engine.final.state = engine.after.state

\* It holds over the stores with a checkpoint, where load() resets the state.
LoadIdempotentWithCheckpoint ==
    /\ engine.pc = "again" /\ engine.op = "load"
    /\ engine.store.last_checkpoint # None
    => /\ engine.err_again = engine.err
       /\ engine.final = engine.after

\* Without a checkpoint the second load() applies the whole log to the state
\* the first one left.
LoadTwiceWithoutCheckpoint ==
    /\ engine.pc = "again" /\ engine.op = "load"
    /\ engine.store.last_checkpoint = None
    /\ engine.table = NewTable
    => /\ engine.final.version = engine.after.version
       /\ engine.final.state.commit_infos =
             engine.after.state.commit_infos \o engine.after.state.commit_infos

(* ------------------------------------------------------------------ *)
(* SpecContiguous: commit_with writers over a log without gaps          *)
(* ------------------------------------------------------------------ *)

\* The log holds the entries 0..n at the start, n up to MaxStartVersion.
MaxStartVersion == 1

\* h1 makes up to MaxContiguousCalls calls, every other handle one.
MaxContiguousCalls == 1

\* The versions the commits can reach.
ContiguousVersions == 0..(MaxStartVersion + MaxContiguousCalls + Cardinality(Handles) - 1)

\* How a handle was used before: not at all, for a load() or for a
\* load_version(0).
Uses == {"new", "load", "load_version"}

\* A table of the entries 0..n and the handles, each used in one of these ways.
InitContiguous ==
    /\ outage = NoOutage
    /\ finder = NoFinder
    /\ last_checkpoint = None
    /\ checkpoint_files = <<>>
    /\ \E n \in 0..MaxStartVersion :
          log = [v \in ContiguousVersions |->
                    IF v <= n THEN Some(LogEntryFromActions(<<Add("b")>>)) ELSE None]
    /\ \E use \in [Handles -> Uses] :
          /\ loaded = [a \in Handles |-> use[a] # "new"]
          /\ table = [a \in Handles |->
                CASE use[a] = "new" -> NewTable
                  [] use[a] = "load" -> load(Store, NewTable).t
                  [] use[a] = "load_version" -> load_version(Store, NewTable, 0, <<>>).t]
    /\ tmp_files = <<>>
    /\ pc = [a \in Handles |-> "idle"]
    /\ call = [a \in Handles |-> NoCall(a)]
    /\ calls_left = [a \in Handles |-> IF a = "h1" THEN MaxContiguousCalls ELSE 1]
    /\ renamed = [v \in ContiguousVersions |-> 0]
    /\ returned = [v \in ContiguousVersions |-> 0]
    /\ logs_deleted = FALSE
    /\ search = NoSearch
    /\ projector = NoProjector
    /\ snapshot = NoSnapshot
    /\ vac = NoVacuum
    /\ engine = NoEngine
    /\ query = NoQuery

\* The handles update and commit with commit_with, every step interleaved with
\* the others'; checkpoints are written meanwhile.
NextContiguous ==
    \/ \E a \in Handles : Update(a)
    \/ \E a \in Handles : CommitWithOptions(a, {1})
    \/ \E a \in Handles : NextAttemptVersion(a)
    \/ \E a \in Handles : TryCommitLoop(a)
    \/ \E a \in Handles : UpdateAfterCommit(a)
    \/ WriteCheckpoint

SpecContiguous == InitContiguous /\ [][NextContiguous]_vars

\* The log entries that exist are 0..m for some m.
Contiguous(lg) ==
    /\ lg[0] # None
    /\ \A v \in DOMAIN lg : lg[v] # None => \A w \in 0..v : lg[w] # None

\* C37: over a log that starts as the entries 0..n, whatever the interleaving
\* of the commit_with calls of handles new, loaded or otherwise used: the
\* version of a rename attempt is the handle's version + 1 as the update()
\* before it left it, an entry that appears is the one after the highest
\* existing entry, and the entries that exist are always 0..m without a gap.
C37_LogContiguous ==
    /\ [](Contiguous(log)
          /\ \A a \in Handles :
                pc[a] = "try_commit_loop" => call[a].version = table[a].version + 1)
    /\ [][\A v \in DOMAIN log :
             log'[v] # log[v] => log[v] = None /\ v = LatestVersion(log) + 1]_vars

\* Both handles, one of them never loaded, have committed over the entries
\* 0..1 and one of them lost a rename on the way: the entries are 0..3.
C37_Witness ==
    /\ \E a \in Handles : ~loaded[a] /\ call[a].op = "commit_with" /\ call[a].status = "Ok"
    /\ \E a \in Handles : call[a].status = "Ok" /\ call[a].rename_attempts = 2
    /\ \A a \in Handles : pc[a] = "idle" /\ call[a].op = "commit_with"
    /\ LatestVersion(log) = 3
    /\ Contiguous(log)

(* ------------------------------------------------------------------ *)
(* SpecStaged: the temporary file of a commit                           *)
(* ------------------------------------------------------------------ *)

\* h1 makes up to MaxStagedCalls calls of commit_with and commit_version.
MaxStagedCalls == 2

InitStaged ==
    /\ outage = NoOutage
    /\ finder = NoFinder
    /\ InitWith(0..MaxOutageVersion,
                [a \in Handles |-> IF a = "h1" THEN MaxStagedCalls ELSE 0])
    /\ search = NoSearch
    /\ projector = NoProjector
    /\ snapshot = NoSnapshot
    /\ vac = NoVacuum
    /\ engine = NoEngine
    /\ query = NoQuery

\* h1 commits with commit_with (one retry allowed) and with commit_version
\* while other writers commit and the storage may start to fail.
NextStaged ==
    \/ CommitWithOptions("h1", {1})
    \/ CommitVersion("h1")
    \/ NextAttemptVersion("h1")
    \/ TryCommitLoop("h1")
    \/ TryCommit("h1")
    \/ UpdateAfterCommit("h1")
    \/ ExternalCommit
    \/ Break

SpecStaged == InitStaged /\ [][NextStaged]_vars

\* The call of handle a has put its temporary file and has not renamed it.
Staged(a) == pc[a] \in {"next_attempt_version", "try_commit_loop", "try_commit"}

\* The temporary file of the call of handle a exists and holds its log entry.
TmpFileKept(a, tmp) ==
    /\ call[a].token \in DOMAIN tmp
    /\ tmp[call[a].token] = LogEntryFromActions(call[a].actions)

\* C38: a commit_with or commit_version call puts one temporary file, in the
\* step that starts it, and no step after that puts another; the file stays
\* as it is through every failed attempt and every retry; the rename that
\* succeeds turns it into the version entry, so that it is gone under its
\* temporary name when the call returns Ok; when the call ends in an error
\* after the put, the file is still there, and no step deletes a temporary
\* file in any other way.
C38_StagedFileFate ==
    [][ LET a == "h1" IN
        /\ DOMAIN tmp_files' \ DOMAIN tmp_files # {}
           => /\ calls_left'[a] < calls_left[a] /\ Staged(a)'
              /\ DOMAIN tmp_files' \ DOMAIN tmp_files = {call'[a].token}
              /\ DOMAIN tmp_files \subseteq DOMAIN tmp_files'
              /\ TmpFileKept(a, tmp_files)'
        /\ Staged(a) /\ pc'[a] # "update" => TmpFileKept(a, tmp_files')
        /\ Staged(a) /\ pc'[a] = "update"
           => /\ call[a].token \notin DOMAIN tmp_files'
              /\ log'[call[a].version] = Some(tmp_files[call[a].token])
        /\ pc[a] = "update" => call[a].token \notin DOMAIN tmp_files'
        /\ \A x \in DOMAIN tmp_files \ DOMAIN tmp_files' :
              x = call[a].token /\ Staged(a) /\ pc'[a] = "update"
        /\ \A x \in DOMAIN tmp_files \cap DOMAIN tmp_files' : tmp_files'[x] = tmp_files[x]
      ]_vars

\* The first call of h1 succeeded and its temporary file is gone; a later
\* commit_version of h1 found its version taken and returned
\* VersionAlreadyExists, and its temporary file is in the directory.
C38_Witness ==
    /\ pc["h1"] = "idle"
    /\ call["h1"].op = "commit_version"
    /\ call["h1"].status = "VersionAlreadyExists"
    /\ call["h1"].token # Token("h1", MaxStagedCalls)
    /\ TmpFileKept("h1", tmp_files)
    /\ Token("h1", MaxStagedCalls) \notin DOMAIN tmp_files
    /\ \E v \in DOMAIN renamed : renamed[v] = 1

====
